---- MODULE Spec2Model ----
(***************************************************************************)
(* filepi-rs: the secure file-operation core.                              *)
(*                                                                         *)
(* The model holds the file tree the server works on (the configured root  *)
(* and what lies beside it), the widget dispatcher                         *)
(* (syncfusion-fm-backend/src/lib.rs), the native endpoints                *)
(* (filepi-server/src/handlers/files.rs), the widget upload                *)
(* (handlers/syncfusion.rs) and the listing paginator                      *)
(* (handlers/result_handler.rs).                                           *)
(*                                                                         *)
(* Paths.  A PathBuf is a sequence of components below "/" (every path the *)
(* handlers build is absolute, because the root is).  A request string is  *)
(* [abs, segs]: whether it starts with '/', and its components.  A         *)
(* canonical path is a sequence of names, the key of a node of the tree.   *)
(* Option<T> is a sequence of length 0 (None) or 1 (Some).                 *)
(***************************************************************************)
EXTENDS Integers, Sequences, FiniteSets, TLC

\* ------------------------------------------------------------------ bounds
\* Longest request string (path, location, file name, folder name), in components.
MaxSegs == 2
\* Requests of the dispatcher, or of the download endpoints, that change the file
\* tree in one behaviour.
MaxSteps == 2
\* Uploads and folder creations that change the file tree in one behaviour.
MaxUploads == 1
\* Thumbnail requests the server works on at the same time.
MaxTasks == 2
\* Uploads the server works on at the same time.
MaxWriters == 2

\* ------------------------------------------------------- the file tree
\* The configured root directory (Config.root_dir) and its cache directory.
Root == <<"srv">>
CacheDir == Root \o <<".cache">>

DirNode == [kind |-> "dir", data |-> <<>>, target |-> <<>>]
FileNode(bytes) == [kind |-> "file", data |-> bytes, target |-> <<>>]
LinkNode(to) == [kind |-> "link", data |-> <<>>, target |-> to]

\* The tree at start-up: the root holds a directory with a text file, a video file
\* and a symlink that leads out of the root; beside the root lie a file and a
\* directory.
InitFS ==
    (<<>> :> DirNode)
    @@ (<<"srv">> :> DirNode)
    @@ (<<"srv", "a">> :> DirNode)
    @@ (<<"srv", "a", "t.txt">> :> FileNode(<<5>>))
    @@ (<<"srv", "v.mp4">> :> FileNode(<<1, 2>>))
    @@ (<<"srv", "lnk">> :> LinkNode(<<"out">>))
    @@ (<<"out">> :> DirNode)
    @@ (<<"out", "v.mp4">> :> FileNode(<<7>>))
    @@ (<<"v.mp4">> :> FileNode(<<9>>))

\* The tree with a cache directory that holds a video.
HiddenFS ==
    InitFS
    @@ (<<"srv", ".cache">> :> DirNode)
    @@ (<<"srv", ".cache", "x.mp4">> :> FileNode(<<4>>))

\* The tree with a symlink in directory a that leads nowhere.
DanglingFS == InitFS @@ (<<"srv", "a", "d.mp4">> :> LinkNode(<<"srv", "gone">>))

\* errno values of a path walk, as paths no tree holds.
ENOENT == <<"!ENOENT">>
ENOTDIR == <<"!ENOTDIR">>
IsErr(p) == p = ENOENT \/ p = ENOTDIR

Front(s) == SubSeq(s, 1, Len(s) - 1)
Last(s) == s[Len(s)]
None == <<>>
Some(x) == <<x>>

KindAt(f, c) == IF c \in DOMAIN f THEN f[c].kind ELSE "none"

\* The kernel's walk from directory cur along comps, following every symlink.
RECURSIVE Walk(_, _, _)
Walk(f, cur, comps) ==
    IF IsErr(cur) \/ comps = <<>> THEN cur
    ELSE IF KindAt(f, cur) # "dir" THEN ENOTDIR
    ELSE LET c == Head(comps)
             rest == Tail(comps)
             n == Append(cur, c)
         IN  IF c = "." THEN Walk(f, cur, rest)
             ELSE IF c = ".." THEN Walk(f, IF cur = <<>> THEN cur ELSE Front(cur), rest)
             ELSE IF n \notin DOMAIN f THEN ENOENT
             ELSE IF f[n].kind = "link"
                  THEN (IF f[n].target \in DOMAIN f
                        THEN Walk(f, f[n].target, rest) ELSE ENOENT)
             ELSE Walk(f, n, rest)

\* std::fs::canonicalize / Path::canonicalize: realpath(3).
canonicalize(f, p) == Walk(f, <<>>, p)

\* Path::exists, Path::is_dir, Path::is_file: stat(2), following symlinks.
exists(f, p) == ~IsErr(canonicalize(f, p))
is_dir(f, p) == KindAt(f, canonicalize(f, p)) = "dir"
is_file(f, p) == KindAt(f, canonicalize(f, p)) = "file"

\* Path::components: "." components are dropped.
Components(p) == SelectSeq(p, LAMBDA c : c # ".")

\* Path::starts_with: a prefix of whole components, nothing is resolved.
starts_with(p, base) ==
    LET cp == Components(p)
        cb == Components(base)
    IN  Len(cb) <= Len(cp) /\ SubSeq(cp, 1, Len(cb)) = cb

\* Path::parent: the path without its last component.
parent(p) == IF Components(p) = <<>> THEN None ELSE Some(Front(Components(p)))

\* PathBuf::join: an absolute argument replaces the base.
join(base, s) == IF s.abs THEN s.segs ELSE base \o s.segs

\* str::trim_start_matches('/').
trim_start_slash(s) == [abs |-> FALSE, segs |-> s.segs]

\* The directory an entry named by p lives in, by the kernel's walk of all but
\* the last component (the last one is not followed).
AsDir(f, d) == IF IsErr(d) THEN d ELSE IF KindAt(f, d) # "dir" THEN ENOTDIR ELSE d
ParentDir(f, p) == AsDir(f, Walk(f, <<>>, Front(p)))

\* mkdir(2).
MkdirIn(f, d, name) ==
    LET n == Append(d, name)
    IN  IF d = ENOENT THEN [err |-> "NotFound", fs |-> f, made |-> {}]
        ELSE IF d = ENOTDIR THEN [err |-> "NotADirectory", fs |-> f, made |-> {}]
        ELSE IF name \in {".", ".."} \/ n \in DOMAIN f
             THEN [err |-> "Exists", fs |-> f, made |-> {}]
        ELSE [err |-> "ok", fs |-> f @@ (n :> DirNode), made |-> {n}]

Mkdir(f, p) ==
    IF p = <<>> THEN [err |-> "Exists", fs |-> f, made |-> {}]
    ELSE MkdirIn(f, ParentDir(f, p), Last(p))

\* std::fs::create_dir_all: mkdir, on NotFound the parent first and mkdir again;
\* any other failure is success when the path is a directory by then.
RECURSIVE create_dir_all(_, _)
\* The answer once mkdir of p has answered r, the ancestors in before made already.
dir_made(f, p, r, before) ==
    IF r.err = "ok" THEN [ok |-> TRUE, fs |-> r.fs, made |-> before \cup r.made]
    ELSE [ok |-> is_dir(f, p), fs |-> f, made |-> before]

\* The second mkdir of p, after create_dir_all of its parent has answered up.
dir_retry(p, up) ==
    IF ~up.ok THEN up ELSE dir_made(up.fs, p, Mkdir(up.fs, p), up.made)

\* The first mkdir of p has answered r.
dir_first(f, p, r) ==
    IF r.err # "NotFound" THEN dir_made(f, p, r, {})
    ELSE IF parent(p) = None THEN [ok |-> FALSE, fs |-> f, made |-> {}]
    ELSE dir_retry(p, create_dir_all(f, parent(p)[1]))

create_dir_all(f, p) == dir_first(f, p, Mkdir(f, p))

\* std::fs::File::create: open(O_WRONLY | O_CREAT | O_TRUNC); a symlink in the last
\* place is followed, a missing file is created empty, an existing one is cut to
\* length 0.
NotTruncated(old) == old
\* What O_TRUNC leaves of the content old of the file opened.
Truncated(old) == <<>>

\* open(2) of the entry name of directory d for writing.
open_trunc(f, d, name) ==
    LET bad == [ok |-> FALSE, fs |-> f, at |-> ENOENT]
        n == Append(d, name)
        t == IF KindAt(f, n) = "link" THEN f[n].target ELSE n
    IN  IF IsErr(d) \/ name \in {".", ".."} THEN bad
        ELSE IF KindAt(f, t) = "file"
             THEN [ok |-> TRUE, fs |-> [f EXCEPT ![t] = FileNode(Truncated(f[t].data))],
                   at |-> t]
        ELSE IF KindAt(f, t) = "none" /\ t # <<>> /\ KindAt(f, Front(t)) = "dir"
             THEN [ok |-> TRUE, fs |-> f @@ (t :> FileNode(<<>>)), at |-> t]
        ELSE bad

file_create(f, p) ==
    IF p = <<>> THEN [ok |-> FALSE, fs |-> f, at |-> ENOENT]
    ELSE open_trunc(f, ParentDir(f, p), Last(p))

\* Write::write_all on the file just opened: the bytes go at offset 0 of the file.
write_all(f, at, bytes) ==
    LET old == f[at].data
        keep == IF Len(old) > Len(bytes) THEN SubSeq(old, Len(bytes) + 1, Len(old))
                ELSE <<>>
    IN  [f EXCEPT ![at] = FileNode(bytes \o keep)]

\* std::fs::read: the whole content of a regular file.
fs_read(f, p) ==
    IF is_file(f, p) THEN Some(f[canonicalize(f, p)].data) ELSE None

\* The nodes strictly below directory d.
Below(f, d) == {q \in DOMAIN f : Len(q) > Len(d) /\ SubSeq(q, 1, Len(d)) = d}

Without(f, gone) == [q \in DOMAIN f \ gone |-> f[q]]

\* std::fs::remove_file: unlink(2); the last component is not followed.
unlink(f, d, name) ==
    LET bad == [ok |-> FALSE, fs |-> f, gone |-> {}]
        n == Append(d, name)
    IN  IF IsErr(d) \/ name \in {".", ".."} THEN bad
        ELSE IF KindAt(f, n) \in {"file", "link"}
             THEN [ok |-> TRUE, fs |-> Without(f, {n}), gone |-> {n}]
        ELSE bad

remove_file(f, p) ==
    IF p = <<>> THEN [ok |-> FALSE, fs |-> f, gone |-> {}]
    ELSE unlink(f, ParentDir(f, p), Last(p))

\* std::fs::remove_dir_all: a symlink is unlinked; of a directory the content is
\* removed first and the directory itself last, by rmdir(2) of the path as given,
\* which fails for "/" and for a path that ends in "." or "..".
\* The entry a path names, its last component not followed.
Entry(p, pd) == IF p = <<>> \/ IsErr(pd) THEN ENOENT ELSE Append(pd, Last(p))

\* remove_dir_all of p, which names entry n and resolves to d.
remove_tree(f, p, n, d, inner) ==
    IF KindAt(f, n) = "link" /\ Last(p) \notin {".", ".."}
    THEN [ok |-> TRUE, fs |-> Without(f, {n}), gone |-> {n}]
    ELSE IF KindAt(f, d) # "dir" THEN [ok |-> FALSE, fs |-> f, gone |-> {}]
    ELSE IF p = <<>> \/ Last(p) \in {".", ".."}
         THEN [ok |-> FALSE, fs |-> Without(f, inner), gone |-> inner]
    ELSE [ok |-> TRUE, fs |-> Without(f, inner \cup {d}), gone |-> inner \cup {d}]

remove_dir_all(f, p) ==
    remove_tree(f, p, Entry(p, ParentDir(f, p)), canonicalize(f, p),
                Below(f, canonicalize(f, p)))

\* std::fs::rename: rename(2) of an entry onto a name that is free (the handler has
\* looked); the whole subtree moves. Moving a directory below itself fails.
\* The tree with entry o and all below it moved to the free name n.
Moved(o, n, q) == n \o SubSeq(q, Len(o) + 1, Len(q))
move_tree(f, o, n, moved, rest) ==
    [q \in (DOMAIN rest) \cup {Moved(o, n, m) : m \in moved} |->
        IF q \in DOMAIN rest THEN rest[q] ELSE f[CHOOSE m \in moved : Moved(o, n, m) = q]]

rename_entry_copied(f, o, n) ==
    IF IsErr(o) \/ IsErr(n) \/ o \notin DOMAIN f \/ n \in DOMAIN f
    THEN [ok |-> FALSE, fs |-> f, from |-> ENOENT, to |-> ENOENT]
    ELSE [ok |-> TRUE,
          fs |-> move_tree(f, o, n, {o} \cup Below(f, o), f),
          from |-> o, to |-> n]
rename_entry(f, o, n) ==
    IF IsErr(o) \/ IsErr(n) THEN [ok |-> FALSE, fs |-> f, from |-> ENOENT, to |-> ENOENT]
    ELSE IF o \notin DOMAIN f \/ n \in DOMAIN f
         THEN [ok |-> FALSE, fs |-> f, from |-> ENOENT, to |-> ENOENT]
    ELSE IF Len(n) > Len(o) /\ SubSeq(n, 1, Len(o)) = o
         THEN [ok |-> FALSE, fs |-> f, from |-> ENOENT, to |-> ENOENT]
    ELSE [ok |-> TRUE,
          fs |-> move_tree(f, o, n, {o} \cup Below(f, o), Without(f, {o} \cup Below(f, o))),
          from |-> o, to |-> n]

fs_rename(f, old, new) ==
    IF old = <<>> \/ new = <<>> THEN [ok |-> FALSE, fs |-> f, from |-> ENOENT, to |-> ENOENT]
    ELSE IF Last(old) \in {".", ".."} \/ Last(new) \in {".", ".."}
         THEN [ok |-> FALSE, fs |-> f, from |-> ENOENT, to |-> ENOENT]
    ELSE rename_entry(f, Entry(old, ParentDir(f, old)), Entry(new, ParentDir(f, new)))

\* ------------------------------------------------------------ file names
\* The UTF-8 bytes of a string (the names and types of this model; a cache key is
\* hex).
NameBytes(n) ==
    CASE n = "a" -> <<97>>
      [] n = "n" -> <<110>>
      [] n = "lnk" -> <<108, 110, 107>>
      [] n = "v.mp4" -> <<118, 46, 109, 112, 52>>
      [] n = ".cache" -> <<46, 99, 97, 99, 104, 101>>
      [] n = "thumbnail.jpg" ->
            <<116, 104, 117, 109, 98, 110, 97, 105, 108, 46, 106, 112, 103>>
      [] n = ".." -> <<46, 46>>
      [] n = "." -> <<46>>
      [] n = "B" -> <<66>>
      [] n = "A.txt" -> <<65, 46, 116, 120, 116>>
      [] n = "b.txt" -> <<98, 46, 116, 120, 116>>
      [] n = "c.txt" -> <<99, 46, 116, 120, 116>>
      [] n = "t.txt" -> <<116, 46, 116, 120, 116>>
      [] n = "d.mp4" -> <<100, 46, 109, 112, 52>>
      [] n = "x.mp4" -> <<120, 46, 109, 112, 52>>
      [] n = "v" -> <<118>>
      [] n = "T" -> <<84>>
      [] n = "mp4" -> <<109, 112, 52>>
      [] n = "" -> <<>>
      [] n = "text/plain" -> <<116, 101, 120, 116, 47, 112, 108, 97, 105, 110>>
      [] n = "video/mp4" -> <<118, 105, 100, 101, 111, 47, 109, 112, 52>>
      [] n = "image/jpeg" -> <<105, 109, 97, 103, 101, 47, 106, 112, 101, 103>>
      [] n = "application/octet-stream" ->
            <<97, 112, 112, 108, 105, 99, 97, 116, 105, 111, 110, 47,
              111, 99, 116, 101, 116, 45, 115, 116, 114, 101, 97, 109>>
      [] OTHER -> <<48>>

\* str::starts_with('.').
starts_with_dot(n) == NameBytes(n)[1] = 46

\* Path::extension of a file name: what follows its last '.', when that '.' is not
\* its first byte; "." and ".." have none.
extension(n) ==
    LET b == NameBytes(n)
        dots == {i \in 2..Len(b) : b[i] = 46}
        last == CHOOSE i \in dots : \A j \in dots : j <= i
    IN  IF n \in {".", ".."} \/ dots = {} THEN None
        ELSE Some(SubSeq(b, last + 1, Len(b)))

\* mime_guess::from_path(..).first_or_octet_stream(), by the extension alone.
mime_type(p) ==
    LET c == Components(p)
        e == IF c = <<>> THEN None ELSE extension(Last(c))
    IN  IF e = Some(<<109, 112, 52>>) THEN "video/mp4"
        ELSE IF e = Some(<<106, 112, 103>>) THEN "image/jpeg"
        ELSE IF e = Some(<<116, 120, 116>>) THEN "text/plain"
        ELSE "application/octet-stream"

any_type_is_video(p) == TRUE
\* mime_type.essence_str().starts_with("video/"), of the types of this model.
is_video(p) == mime_type(p) = "video/mp4"

\* ------------------------------------------------------------- requests
\* The components a client writes in a path, a location or a name.
Comps == {"..", "a", "v.mp4", "lnk", "n"}

Rel(segs) == [abs |-> FALSE, segs |-> segs]
Abs(segs) == [abs |-> TRUE, segs |-> segs]
EmptyStr == Rel(<<>>)

SegsUpTo(k) == UNION {[1..i -> Comps] : i \in 0..k}
\* The path of an endpoint that takes one path: up to MaxSegs components.
PathStrs == {Rel(s) : s \in SegsUpTo(MaxSegs)}
\* The directory a request with a name beside it gives: at most one component.
DirStrs == {Rel(s) : s \in SegsUpTo(1)}
\* A name a request gives: one component, one below the parent, or an absolute one.
NameStrs ==
    {Rel(<<c>>) : c \in Comps} \cup {Rel(<<"..", c>>) : c \in Comps}
        \cup {Abs(<<c>>) : c \in Comps}
\* The name of an entry to rename: one component.
OldNameStrs == {Rel(<<c>>) : c \in Comps}
\* An upload's location: a directory, one to be made (two levels of it), one
\* beside the root, or an absolute one.
LocStrs == DirStrs \cup {Rel(<<".">>), Rel(<<"..", "n">>), Rel(<<"n", "n">>), Abs(<<"n">>)}
\* What a client uploads.
Contents == {<<1, 2>>, <<3>>}

\* Whether a canonical path lies in the root.
Inside(c) == ~IsErr(c) /\ Len(c) >= Len(Root) /\ SubSeq(c, 1, Len(Root)) = Root

VARIABLES
    fs,     \* the file tree: canonical path -> node
    resp,   \* the response of the request being answered, NoResp when idle
    steps,  \* requests that changed the tree so far
    thumbs, \* the thumbnail requests in flight: where each is in get_thumbnail
    served, \* the thumbnails answered so far: <<source path, thumbnail path>>
    ups     \* the uploads in flight: where each is in upload_file

vars == <<fs, resp, steps, thumbs, served, ups>>

NoResp == [op |-> "none", req |-> <<>>, status |-> "", body |-> <<>>, touched |-> {}]

\* ===================================================== the widget dispatcher
\* syncfusion-fm-backend/src/lib.rs. A handler's result is [fs, response, touched]:
\* the tree after it, its FileManagerResponse, and the canonical paths of the
\* entries it listed, created, removed or renamed.

create_error_response(code, message) ==
    [cwd |-> None, files |-> None,
     error |-> Some([code |-> code, message |-> message, file_exists |-> None])]

exists_response_unnamed(message, name) == create_error_response("400", message)
\* The FileManagerResponse of a conflict: an error with file_exists: Some(vec![name]).
exists_response(message, name) ==
    [cwd |-> None, files |-> None,
     error |-> Some([code |-> "400", message |-> message, file_exists |-> Some(<<name>>)])]

files_response(cwd, files) == [cwd |-> cwd, files |-> Some(files), error |-> None]

Failed(f, code, message) ==
    [fs |-> f, response |-> create_error_response(code, message), touched |-> {}]

within_unchecked(canonical_path, canonical_root) ==
    ~IsErr(canonical_path) /\ ~IsErr(canonical_root)
\* canonical_path.starts_with(&canonical_root), both canonicalize calls having
\* succeeded; a failed one makes is_safe_path return false.
within(canonical_path, canonical_root) ==
    IF IsErr(canonical_path) \/ IsErr(canonical_root) THEN FALSE
    ELSE starts_with(canonical_path, canonical_root)

is_safe_path(f, path, root) ==
    within(IF exists(f, path) THEN canonicalize(f, path)
           ELSE IF parent(path) = None THEN ENOENT
           ELSE canonicalize(f, parent(path)[1]),
           canonicalize(f, root))

\* let relative_path = if path_str == "/" { "" } else { path_str.trim_start_matches('/') }
relative_path(req) == trim_start_slash(req.path)

\* The children of directory d, as fs::read_dir gives them.
Children(f, d) == {q \in DOMAIN f : q # <<>> /\ Front(q) = d}

handle_read(f, req) ==
    LET full_path == join(Root, relative_path(req))
        d == canonicalize(f, full_path)
        shown == {q \in Children(f, d) :
                     req.show_hidden_items \/ ~starts_with_dot(Last(q))}
        files == {[name |-> Last(q), is_file |-> f[q].kind # "dir"] : q \in shown}
        segs == relative_path(req).segs
        cwd_name == IF segs = <<>> THEN Last(Root) ELSE Last(segs)
    IN  IF ~is_safe_path(f, full_path, Root) THEN Failed(f, "400", "Invalid path")
        ELSE IF ~exists(f, full_path) THEN Failed(f, "404", "Path not found")
        ELSE IF ~is_dir(f, full_path) THEN Failed(f, "400", "Path is not a directory")
        ELSE [fs |-> f,
              response |-> files_response(
                  Some([name |-> cwd_name, has_child |-> files # {}]), files),
              touched |-> {d} \cup shown]

\* match fs::create_dir_all(&full_path), which has answered made.
create_result(name, made) ==
    [fs |-> made.fs,
     response |-> IF made.ok
                  THEN files_response(None, {[name |-> name, is_file |-> FALSE]})
                  ELSE create_error_response("500", "Failed to create directory"),
     touched |-> made.made]

handle_create(f, req) ==
    LET name == req.name[1]
        full_path == join(join(Root, relative_path(req)), name)
    IN  IF req.name = None \/ req.name = Some(EmptyStr)
        THEN Failed(f, "400", "Folder name is required")
        ELSE IF ~is_safe_path(f, full_path, Root) THEN Failed(f, "400", "Invalid path")
        ELSE IF exists(f, full_path)
             THEN [fs |-> f, response |-> exists_response("Folder already exists", name),
                   touched |-> {}]
        ELSE create_result(name, create_dir_all(f, full_path))

\* The loop of handle_delete over names[i..], with the entries deleted so far.
RECURSIVE delete_from(_, _, _, _, _)
\* The removal of names[i] has answered r.
delete_result(req, i, deleted, touched, entry, r) ==
    IF ~r.ok
    THEN [fs |-> r.fs, response |-> create_error_response("500", "Failed to delete"),
          touched |-> touched \cup r.gone]
    ELSE delete_from(r.fs, req, i + 1, Append(deleted, entry), touched \cup r.gone)

delete_from_skipping(f, req, i, deleted, touched) ==
    IF i > Len(req.names[1])
    THEN [fs |-> f, response |-> files_response(None, deleted), touched |-> touched]
    ELSE IF ~is_safe_path(f, join(join(Root, relative_path(req)), req.names[1][i]), Root)
         THEN [fs |-> f, response |-> create_error_response("400", "Invalid path"),
               touched |-> touched]
    ELSE IF ~exists(f, join(join(Root, relative_path(req)), req.names[1][i]))
         THEN delete_from(f, req, i + 1, deleted, touched)
    ELSE IF is_dir(f, join(join(Root, relative_path(req)), req.names[1][i]))
         THEN delete_result(req, i, deleted, touched,
                            [name |-> req.names[1][i], is_file |-> FALSE],
                            remove_dir_all(f, join(join(Root, relative_path(req)),
                                                   req.names[1][i])))
    ELSE delete_result(req, i, deleted, touched,
                       [name |-> req.names[1][i], is_file |-> TRUE],
                       remove_file(f, join(join(Root, relative_path(req)),
                                           req.names[1][i])))
delete_from(f, req, i, deleted, touched) ==
    LET name == req.names[1][i]
        full_path == join(join(Root, relative_path(req)), name)
    IN  IF i > Len(req.names[1])
        THEN [fs |-> f, response |-> files_response(None, deleted), touched |-> touched]
        ELSE IF ~is_safe_path(f, full_path, Root)
             THEN [fs |-> f, response |-> create_error_response("400", "Invalid path"),
                   touched |-> touched]
        ELSE IF ~exists(f, full_path)
             THEN [fs |-> f, response |-> create_error_response("404", "File not found"),
                   touched |-> touched]
        ELSE IF is_dir(f, full_path)
             THEN delete_result(req, i, deleted, touched, [name |-> name, is_file |-> FALSE],
                                remove_dir_all(f, full_path))
        ELSE delete_result(req, i, deleted, touched, [name |-> name, is_file |-> TRUE],
                           remove_file(f, full_path))

handle_delete(f, req) ==
    IF req.names = None \/ req.names = Some(<<>>)
    THEN Failed(f, "400", "File names are required")
    ELSE delete_from(f, req, 1, <<>>, {})

\* match fs::rename(&old_path, &new_path), which has answered r.
rename_result(f, new_name, new_path, r) ==
    IF ~r.ok THEN Failed(f, "500", "Failed to rename file")
    ELSE [fs |-> r.fs,
          response |-> files_response(
              None, {[name |-> new_name, is_file |-> ~is_dir(r.fs, new_path)]}),
          touched |-> {r.from, r.to}]

handle_rename(f, req) ==
    LET name == req.name[1]
        new_name == req.new_name[1]
        old_path == join(join(Root, relative_path(req)), name)
        new_path == join(join(Root, relative_path(req)), new_name)
    IN  IF req.name = None \/ req.name = Some(EmptyStr)
        THEN Failed(f, "400", "File name is required")
        ELSE IF req.new_name = None \/ req.new_name = Some(EmptyStr)
             THEN Failed(f, "400", "New name is required")
        ELSE IF ~is_safe_path(f, old_path, Root) \/ ~is_safe_path(f, new_path, Root)
             THEN Failed(f, "400", "Invalid path")
        ELSE IF ~exists(f, old_path) THEN Failed(f, "404", "File not found")
        ELSE IF exists(f, new_path)
             THEN [fs |-> f, response |-> exists_response("File already exists", new_name),
                   touched |-> {}]
        ELSE rename_result(f, new_name, new_path, fs_rename(f, old_path, new_path))

handle_placeholder_blank(f, req) ==
    [fs |-> f, response |-> [cwd |-> None, files |-> None, error |-> None], touched |-> {}]
\* handle_search, handle_copy, handle_move, handle_details: placeholders.
handle_placeholder(f, req) ==
    [fs |-> f, response |-> files_response(None, {}), touched |-> {}]

process_file_manager_request(f, req) ==
    LET action == IF req.action = None THEN "" ELSE req.action[1]
    IN  CASE action = "read" -> handle_read(f, req)
          [] action = "create" -> handle_create(f, req)
          [] action = "delete" -> handle_delete(f, req)
          [] action = "rename" -> handle_rename(f, req)
          [] action \in {"search", "copy", "move", "details"} -> handle_placeholder(f, req)
          [] OTHER -> Failed(f, "400", "Unknown action")

\* An ActionRequest (FileManagerDirectoryContent as a request).
Request(action, path, name, new_name, names, hidden) ==
    [action |-> action, path |-> path, name |-> name, new_name |-> new_name,
     names |-> names, show_hidden_items |-> hidden]

\* ======================================================= the native endpoints
\* filepi-server/src/handlers/files.rs. A handler's result is [fs, status, response,
\* touched]: the tree after it, the HTTP outcome, the body, and the canonical paths
\* of the entries it opened, created or handed to a child process.

\* Err(AppError::kind(message)).
AppError(f, kind, message, touched) ==
    [fs |-> f, status |-> kind, response |-> [error |-> message], touched |-> touched]

\* Path::file_name: the last component, none when the path ends in "..".
path_file_name(p) ==
    IF Components(p) = <<>> \/ Last(Components(p)) = ".." THEN None
    ELSE Some(Last(Components(p)))

\* File::open(&abs_path), its metadata and the stream of its bytes, opened at c.
open_and_stream(f, c, content_type, headers) ==
    IF KindAt(f, c) # "file" THEN AppError(f, "InternalError", "Failed to open file", {})
    ELSE [fs |-> f, status |-> "Ok",
          response |-> [content_type |-> content_type, content_length |-> Len(f[c].data),
                        headers |-> headers, body |-> f[c].data],
          touched |-> {c}]

content_disposition(inline, abs_path) ==
    [disposition |-> IF inline = Some(TRUE) THEN "inline" ELSE "attachment",
     filename |-> IF path_file_name(abs_path) = None THEN "download"
                  ELSE path_file_name(abs_path)[1]]

serve_file(f, file_path, inline) ==
    LET abs_path == join(Root, trim_start_slash(file_path))
    IN  IF ~starts_with(abs_path, Root) THEN AppError(f, "BadRequest", "Invalid path", {})
        ELSE IF ~exists(f, abs_path) THEN AppError(f, "NotFound", "File not found", {})
        ELSE IF is_dir(f, abs_path)
             THEN AppError(f, "BadRequest", "Path is a directory", {})
        ELSE open_and_stream(f, canonicalize(f, abs_path), mime_type(abs_path),
                             content_disposition(inline, abs_path))

stream_file(f, file_path) ==
    LET abs_path == join(Root, trim_start_slash(file_path))
    IN  IF ~starts_with(abs_path, Root) THEN AppError(f, "BadRequest", "Invalid path", {})
        ELSE IF ~exists(f, abs_path) THEN AppError(f, "NotFound", "File not found", {})
        ELSE IF is_dir(f, abs_path)
             THEN AppError(f, "BadRequest", "Path is a directory", {})
        ELSE open_and_stream(f, canonicalize(f, abs_path), mime_type(abs_path),
                             [accept_ranges |-> "bytes", cache_control |-> "no-cache"])

\* ---------------------------------------------------------------- thumbnails
\* handlers/thumbnail_manager.rs.

\* Path::to_str of an absolute path.
RECURSIVE to_str(_)
to_str(p) == IF p = <<>> THEN "" ELSE "/" \o Head(p) \o to_str(Tail(p))

\* get_md5_hash: the hex digest of a string, one name for each string.
get_md5_hash(input) == "md5:" \o input

\* What ffmpeg writes as the frame of a video: it is taken from the content.
Frame(video) == IF video = <<>> THEN <<0>> ELSE <<Head(video)>>

\* What the run of ffmpeg leaves: it reads the video at path and, when it wrote a
\* frame, the thumbnail holds it. outcome is "written", "nothing" (exit status 0
\* and no frame, as for a video shorter than the seek) or "failed".
ffmpeg_wrote(f, made, video, thumbnail_path, outcome, c) ==
    IF outcome = "failed"
    THEN [fs |-> f, result |-> "InternalError", path |-> thumbnail_path,
          touched |-> made \cup {video}]
    ELSE IF outcome = "written" /\ c.ok /\ KindAt(f, video) = "file"
         THEN [fs |-> write_all(c.fs, c.at, Frame(f[video].data)), result |-> "Ok",
               path |-> thumbnail_path,
               touched |-> made \cup {video, c.at}]
    ELSE [fs |-> f, result |-> "Ok", path |-> thumbnail_path, touched |-> made \cup {video}]

never_cached(f, thumbnail_path) == FALSE
\* if thumbnail_path.exists(): the cache hit.
thumbnail_cached(f, thumbnail_path) == exists(f, thumbnail_path)

\* if !thumbnail_dir.exists() { create_dir_all(&thumbnail_dir) }.
thumbnail_dir_made(f, thumbnail_dir) ==
    IF exists(f, thumbnail_dir) THEN [ok |-> TRUE, fs |-> f, made |-> {}]
    ELSE create_dir_all(f, thumbnail_dir)

\* thumbnail_manager::get_thumbnail from the creation of the cache directory on,
\* which has answered d.
thumbnail_in(d, path, thumbnail_dir, outcome) ==
    LET thumbnail_path == Append(thumbnail_dir, "thumbnail.jpg")
    IN  IF ~d.ok
        THEN [fs |-> d.fs, result |-> "InternalError", path |-> thumbnail_path,
              touched |-> d.made]
        ELSE IF thumbnail_cached(d.fs, thumbnail_path)
             THEN [fs |-> d.fs, result |-> "Ok", path |-> thumbnail_path, touched |-> d.made]
        ELSE ffmpeg_wrote(d.fs, d.made, canonicalize(d.fs, path), thumbnail_path, outcome,
                          file_create(d.fs, thumbnail_path))

thumbnail_manager_get_thumbnail(f, path, outcome) ==
    LET thumbnail_dir == Append(CacheDir, get_md5_hash(to_str(path)))
    IN  IF ~exists(f, path) \/ is_dir(f, path)
        THEN [fs |-> f, result |-> "InvalidInput", path |-> <<>>, touched |-> {}]
        ELSE IF ~is_video(path)
             THEN [fs |-> f, result |-> "InvalidInput", path |-> <<>>, touched |-> {}]
        ELSE thumbnail_in(thumbnail_dir_made(f, thumbnail_dir), path, thumbnail_dir, outcome)

\* The handler once the manager has answered t.
serve_thumbnail(t) ==
    IF t.result = "InvalidInput"
    THEN AppError(t.fs, "BadRequest", "Invalid file for thumbnail generation", t.touched)
    ELSE IF t.result = "InternalError"
         THEN AppError(t.fs, "InternalError", "Failed to generate thumbnail", t.touched)
    ELSE IF ~is_file(t.fs, t.path)
         THEN AppError(t.fs, "InternalError", "Failed to open thumbnail", t.touched)
    ELSE [fs |-> t.fs, status |-> "Ok",
          response |-> [content_type |-> "image/jpeg",
                        content_length |-> Len(fs_read(t.fs, t.path)[1]),
                        headers |-> [cache_control |-> "no-cache"],
                        body |-> fs_read(t.fs, t.path)[1]],
          touched |-> t.touched \cup {canonicalize(t.fs, t.path)}]

get_thumbnail(f, file_path, outcome) ==
    LET abs_path == join(Root, trim_start_slash(file_path))
    IN  IF ~starts_with(abs_path, Root) THEN AppError(f, "BadRequest", "Invalid path", {})
        ELSE serve_thumbnail(thumbnail_manager_get_thumbnail(f, abs_path, outcome))

\* ------------------------------------------- thumbnail requests in flight
\* get_thumbnail is an async fn: between its awaits (the creation of the cache
\* directory, the run of ffmpeg, the opening of the thumbnail) the server works on
\* other requests. A request in flight is [pc, path, late, result, out, hit, status,
\* body]: pc is "idle", "lookup" (the cache directory is there), "ffmpeg" (the child
\* process runs), "writing" (the child process has opened its output file and not
\* yet written the frame), "returned" (the manager has answered result and out) or "done"
\* (the handler has answered status and body); late holds the thumbnail paths the
\* server had answered for path when the request came in.
Tasks == 1..MaxTasks

IdleTask ==
    [pc |-> "idle", path |-> EmptyStr, late |-> {}, result |-> "", out |-> <<>>,
     hit |-> FALSE, status |-> "", body |-> <<>>]

\* let abs_path = PathBuf::from(&config.root_dir).join(file_path).
thumbnail_source(file_path) == join(Root, trim_start_slash(file_path))

\* config.cache_dir.join(&md5_hash).join("thumbnail.jpg").
thumbnail_path_of(path) ==
    Append(Append(CacheDir, get_md5_hash(to_str(path))), "thumbnail.jpg")

\* The creation of the cache directory has answered d.
thumbnail_dir_ready(d) ==
    [fs |-> d.fs, result |-> IF d.ok THEN "" ELSE "InternalError"]

\* thumbnail_manager::get_thumbnail up to its first await: the preconditions and
\* the cache directory. result "" says that the request goes on.
thumbnail_begin(f, path) ==
    IF ~exists(f, path) \/ is_dir(f, path) THEN [fs |-> f, result |-> "InvalidInput"]
    ELSE IF ~is_video(path) THEN [fs |-> f, result |-> "InvalidInput"]
    ELSE thumbnail_dir_ready(thumbnail_dir_made(f, Front(thumbnail_path_of(path))))

\* ------------------------------------------------------------------ uploads
\* A String of the sha512 field is a sequence of characters.
HexDigits == <<"0", "1", "2", "3", "4", "5", "6", "7", "8", "9", "a", "b", "c", "d", "e", "f">>

\* The length of a SHA-512 digest in hex digits.
Sha512HexLen == 128
\* The characters of a hash that upload_file writes to its log.
LogPrefixLen == 16

\* format!("{:x}", Sha512::digest(contents)): Sha512HexLen lower-case hex digits,
\* different for different contents (the bytes of this model are below 15).
Sha512Hex(contents) ==
    [i \in 1..Sha512HexLen |->
        IF i <= Len(contents) THEN HexDigits[contents[i] + 1]
        ELSE IF i = Len(contents) + 1 THEN "f"
        ELSE "0"]

\* hash_utilities.rs compute_file_sha512: fs::read, then the digest in hex.
compute_file_sha512(f, p) ==
    IF fs_read(f, p) = None THEN None ELSE Some(Sha512Hex(fs_read(f, p)[1]))

\* char::to_lowercase of the characters a hash is written in.
lower(ch) ==
    CASE ch = "A" -> "a" [] ch = "B" -> "b" [] ch = "C" -> "c"
      [] ch = "D" -> "d" [] ch = "E" -> "e" [] ch = "F" -> "f"
      [] OTHER -> ch

upper(ch) ==
    CASE ch = "a" -> "A" [] ch = "b" -> "B" [] ch = "c" -> "C"
      [] ch = "d" -> "D" [] ch = "e" -> "E" [] ch = "f" -> "F"
      [] OTHER -> ch

keep_case(s) == s
\* str::to_lowercase.
to_lowercase(s) == [i \in 1..Len(s) |-> lower(s[i])]

\* char::is_whitespace, of the characters a client sends around a hash.
is_whitespace(ch) == ch \in {" ", "\t", "\n"}

\* str::trim_start, str::trim_end and str::trim.
RECURSIVE trim_start(_)
trim_start(s) ==
    IF s = <<>> THEN s ELSE IF is_whitespace(Head(s)) THEN trim_start(Tail(s)) ELSE s

RECURSIVE trim_end(_)
trim_end(s) ==
    IF s = <<>> THEN s ELSE IF is_whitespace(Last(s)) THEN trim_end(Front(s)) ELSE s

trim(s) == trim_end(trim_start(s))

\* The hash as a client that writes upper case and a line end sends it.
Shouted(h) == <<" ">> \o [i \in 1..Len(h) |-> upper(h[i])] \o <<"\n">>

\* Path::strip_prefix(&canonical_root).unwrap_or(&file_path).
strip_prefix(p, base) ==
    IF starts_with(p, base)
    THEN Rel(SubSeq(Components(p), Len(Components(base)) + 1, Len(Components(p))))
    ELSE Abs(p)

UploadResponse(form, filename, file_path, canonical_root, skipped, sha512) ==
    [message |-> IF skipped
                 THEN "File already exists with identical content, upload skipped"
                 ELSE "File uploaded successfully",
     filename |-> filename, location |-> strip_prefix(file_path, canonical_root),
     uploaded_by |-> form.user, skipped |-> skipped, sha512 |-> Some(sha512)]

\* upload_file after write_all: the hash of the file as it is on disk now.
upload_hashed(f, form, filename, file_path, canonical_root, touched, new_file_hash) ==
    IF new_file_hash = None
    THEN AppError(f, "InternalError", "Failed to compute file hash", touched)
    ELSE [fs |-> f, status |-> "Ok",
          response |-> UploadResponse(form, filename, file_path, canonical_root, FALSE,
                                      new_file_hash[1]),
          touched |-> touched]

\* upload_file from File::create on, which has answered c.
upload_written(form, filename, file_path, canonical_root, made, c) ==
    IF ~c.ok THEN AppError(c.fs, "InternalError", "Failed to create file", made)
    ELSE upload_hashed(write_all(c.fs, c.at, form.contents), form, filename, file_path,
                       canonical_root, made \cup {c.at},
                       compute_file_sha512(write_all(c.fs, c.at, form.contents), file_path))

\* upload_file with an existing destination and a client hash, the hash of the
\* existing file being existing_hash.
upload_deduplicate(f, form, filename, file_path, canonical_root, made, client_hash, existing_hash) ==
    IF existing_hash = None
    THEN AppError(f, "InternalError", "Failed to compute file hash", made)
    ELSE IF client_hash = existing_hash[1]
         THEN [fs |-> f, status |-> "Ok",
               response |-> UploadResponse(form, filename, file_path, canonical_root, TRUE,
                                           existing_hash[1]),
               touched |-> made]
    ELSE upload_written(form, filename, file_path, canonical_root, made,
                        file_create(f, file_path))

\* upload_file with the upload directory and the root canonicalized.
upload_into(f, form, client_sha512, filename, upload_dir, canonical_root, made) ==
    LET file_path == join(upload_dir, filename)
    IN  IF ~starts_with(upload_dir, canonical_root)
        THEN AppError(f, "BadRequest", "Invalid upload path: outside root directory", made)
        ELSE IF exists(f, file_path) /\ client_sha512 # None
             THEN upload_deduplicate(f, form, filename, file_path, canonical_root, made,
                                     client_sha512[1], compute_file_sha512(f, file_path))
        ELSE upload_written(form, filename, file_path, canonical_root, made,
                            file_create(f, file_path))

\* upload_file once the upload directory is there or create_dir_all has answered d.
upload_located(d, form, client_sha512, filename, upload_dir) ==
    IF ~d.ok THEN AppError(d.fs, "InternalError", "Failed to create directory", d.made)
    ELSE IF ~exists(d.fs, upload_dir)
         THEN AppError(d.fs, "BadRequest", "Invalid upload location", d.made)
    ELSE IF ~exists(d.fs, Root)
         THEN AppError(d.fs, "InternalError", "Invalid root directory configuration", d.made)
    ELSE upload_into(d.fs, form, client_sha512, filename, canonicalize(d.fs, upload_dir),
                     canonicalize(d.fs, Root), d.made)

\* An UploadForm is [location, user, sha512, file_name, contents]. The slice
\* &h[..16] of a shorter hash panics: the request ends without a response.
upload_file(f, form) ==
    LET client_sha512 == IF form.sha512 = None THEN None
                         ELSE Some(to_lowercase(trim(form.sha512[1])))
        filename == IF form.file_name = None THEN Rel(<<"unnamed">>) ELSE form.file_name[1]
        upload_dir == join(Root, form.location)
    IN  IF client_sha512 # None /\ Len(client_sha512[1]) < LogPrefixLen
        THEN [fs |-> f, status |-> "Panic", response |-> <<>>, touched |-> {}]
        ELSE IF form.location = EmptyStr \/ form.user = ""
             THEN AppError(f, "BadRequest", "Missing required fields: location or user", {})
        ELSE upload_located(IF exists(f, upload_dir) THEN [ok |-> TRUE, fs |-> f, made |-> {}]
                            ELSE create_dir_all(f, upload_dir),
                            form, client_sha512, filename, upload_dir)

\* create_folder from create_dir_all on, which has answered d.
folder_created(d) ==
    IF ~d.ok THEN AppError(d.fs, "InternalError", "Failed to create directory", d.made)
    ELSE [fs |-> d.fs, status |-> "Ok",
          response |-> [message |-> "Folder created successfully"], touched |-> d.made]

\* create_folder with the path and the root canonicalized.
create_folder_in(f, full_path, canonical_root, folder_name) ==
    LET dir_path == join(full_path, folder_name)
    IN  IF ~starts_with(full_path, canonical_root)
        THEN AppError(f, "BadRequest", "Invalid path: outside root directory", {})
        ELSE IF exists(f, dir_path)
             THEN AppError(f, "BadRequest", "Directory already exist", {})
        ELSE folder_created(create_dir_all(f, dir_path))

\* A CreateFolderRequest is [path, foldername], both optional.
create_folder(f, params) ==
    LET path == IF params.path = None THEN EmptyStr ELSE params.path[1]
        folder_name == IF params.foldername = None THEN EmptyStr ELSE params.foldername[1]
        full_path == join(Root, path)
    IN  IF folder_name = EmptyStr
        THEN AppError(f, "NotFound", "Folder name should not be empty", {})
        ELSE IF ~exists(f, full_path) THEN AppError(f, "NotFound", "Path not found", {})
        ELSE IF ~exists(f, Root)
             THEN AppError(f, "InternalError", "Invalid root directory configuration", {})
        ELSE create_folder_in(f, canonicalize(f, full_path), canonicalize(f, Root),
                              folder_name)

\* ------------------------------------------------------ uploads in flight
\* upload_file runs on a worker thread of the runtime; another upload runs on
\* another at the same time, and the system calls of the two (File::create,
\* write_all, the fs::read of compute_file_sha512) fall in any order. An upload in
\* flight is [pc, form, path, at, status, skipped, sha512]: pc is "idle", "create"
\* (the checks are passed, the file is to be opened at path), "write" (the file is
\* opened at node at), "hash" (the bytes are written) or "done".
Writers == 1..MaxWriters

IdleUpload ==
    [pc |-> "idle", form |-> <<>>, path |-> <<>>, at |-> <<>>, status |-> "",
     skipped |-> FALSE, sha512 |-> None]

\* let file_path = upload_dir.join(&filename), of the canonical upload directory.
upload_destination(f, form) ==
    join(canonicalize(f, join(Root, form.location)),
         IF form.file_name = None THEN Rel(<<"unnamed">>) ELSE form.file_name[1])

\* upload_file up to File::create: what it answers when it ends before (an error,
\* or the upload skipped), and go when it goes on to open the file.
upload_begin(f, form, r) ==
    [go |-> r.status = "Ok" /\ ~r.response.skipped,
     status |-> r.status,
     skipped |-> r.status = "Ok" /\ r.response.skipped,
     sha512 |-> IF r.status = "Ok" THEN r.response.sha512 ELSE None]

\* handlers/syncfusion.rs upload, from File::create on, which has answered c: the
\* chunks of the field are written one after the other.
sf_upload_written(made, contents, c) ==
    IF ~c.ok THEN AppError(c.fs, "InternalError", "Failed to create file", made)
    ELSE [fs |-> write_all(c.fs, c.at, contents), status |-> "Ok", response |-> <<>>,
          touched |-> made \cup {c.at}]

\* upload with the upload directory there or create_dir_all having answered d.
sf_upload_into(d, upload_dir, file_name, contents) ==
    IF ~d.ok THEN AppError(d.fs, "InternalError", "Failed to create directory", d.made)
    ELSE sf_upload_written(d.made, contents, file_create(d.fs, join(upload_dir, file_name)))

\* pub fn validate_path: the joined path, when is_safe_path accepts it.
validate_path(f, root_dir, rel_path) ==
    IF ~is_safe_path(f, join(root_dir, rel_path), root_dir) THEN None
    ELSE Some(join(root_dir, rel_path))

\* upload of one uploadFiles field under the query parameter path.
sf_upload(f, path, file_name, contents) ==
    LET current_path == IF path = None THEN Abs(<<>>) ELSE path[1]
        rel_path == trim_start_slash(current_path)
        name == IF file_name = None THEN Rel(<<"uploaded_file">>) ELSE file_name[1]
        canonical_upload_dir == validate_path(f, Root, rel_path)
    IN  IF canonical_upload_dir = None
        THEN AppError(f, "BadRequest", "Invalid upload path", {})
        ELSE sf_upload_into(IF exists(f, canonical_upload_dir[1])
                            THEN [ok |-> TRUE, fs |-> f, made |-> {}]
                            ELSE create_dir_all(f, canonical_upload_dir[1]),
                            canonical_upload_dir[1], name, contents)

\* ================================================================ listings
\* handlers/result_handler.rs and models/file_info.rs.

\* A FileInfo, with the fields format_result reads.
FileInfo(name, is_directory, size, created_time, modified_time) ==
    [name |-> name, is_directory |-> is_directory, size |-> size,
     created_time |-> created_time, modified_time |-> modified_time,
     file_type |-> mime_type(<<name>>)]

\* Ord::cmp as -1 (Less), 0 (Equal), 1 (Greater): of integers, of bool (false is
\* the lesser), of Option (None is the least) and of strings (by their bytes).
int_cmp(a, b) == IF a < b THEN -1 ELSE IF a > b THEN 1 ELSE 0

bool_cmp(a, b) == IF a = b THEN 0 ELSE IF b THEN -1 ELSE 1

option_cmp(a, b) ==
    IF a = None /\ b = None THEN 0
    ELSE IF a = None THEN -1
    ELSE IF b = None THEN 1
    ELSE int_cmp(a[1], b[1])

RECURSIVE bytes_cmp(_, _)
bytes_cmp(a, b) ==
    IF a = <<>> /\ b = <<>> THEN 0
    ELSE IF a = <<>> THEN -1
    ELSE IF b = <<>> THEN 1
    ELSE IF Head(a) # Head(b) THEN int_cmp(Head(a), Head(b))
    ELSE bytes_cmp(Tail(a), Tail(b))

str_ignore_case_cmp(a, b) ==
    bytes_cmp([i \in 1..Len(NameBytes(a)) |->
                  IF NameBytes(a)[i] \in 65..90 THEN NameBytes(a)[i] + 32 ELSE NameBytes(a)[i]],
              [i \in 1..Len(NameBytes(b)) |->
                  IF NameBytes(b)[i] \in 65..90 THEN NameBytes(b)[i] + 32 ELSE NameBytes(b)[i]])
str_cmp(a, b) == bytes_cmp(NameBytes(a), NameBytes(b))

valid_fields_any_case == {"name", "Name", "size", "modified_time", "created_time", "file_type"}
\* let valid_fields = ["name", "size", "modified_time", "created_time", "file_type"].
valid_fields == {"name", "size", "modified_time", "created_time", "file_type"}

\* The match on sort_field of the comparator.
field_cmp(sort_field, a, b) ==
    CASE sort_field = "name" -> str_cmp(a.name, b.name)
      [] sort_field = "size" -> int_cmp(a.size, b.size)
      [] sort_field = "modified_time" -> option_cmp(a.modified_time, b.modified_time)
      [] sort_field = "created_time" -> option_cmp(a.created_time, b.created_time)
      [] sort_field = "file_type" -> str_cmp(a.file_type, b.file_type)
      [] OTHER -> 0

dirs_mixed_cmp(a, b) == 0
\* return b.is_directory.cmp(&a.is_directory), of entries that differ in it.
dirs_first_cmp(a, b) == bool_cmp(b.is_directory, a.is_directory)

\* The closure given to sort_by: with a sort field, and without one.
compare(sort_by, is_desc, a, b) ==
    IF a.is_directory # b.is_directory THEN dirs_first_cmp(a, b)
    ELSE IF sort_by = None THEN str_cmp(a.name, b.name)
    ELSE IF is_desc THEN field_cmp(sort_by[1], b, a)
    ELSE field_cmp(sort_by[1], a, b)

\* slice::sort_by is stable: an element goes behind all that do not compare
\* greater than it.
RECURSIVE insert_behind(_, _, _, _)
insert_behind(sorted, x, sort_by, is_desc) ==
    IF sorted = <<>> THEN <<x>>
    ELSE IF compare(sort_by, is_desc, Head(sorted), x) <= 0
         THEN <<Head(sorted)>> \o insert_behind(Tail(sorted), x, sort_by, is_desc)
    ELSE <<x>> \o sorted

RECURSIVE sort_files(_, _, _)
sort_files(files, sort_by, is_desc) ==
    IF files = <<>> THEN <<>>
    ELSE insert_behind(sort_files(Front(files), sort_by, is_desc), Last(files),
                       sort_by, is_desc)

\* Iterator::skip and Iterator::take.
RECURSIVE iter_skip(_, _)
iter_skip(s, n) == IF n = 0 \/ s = <<>> THEN s ELSE iter_skip(Tail(s), n - 1)

RECURSIVE iter_take(_, _)
iter_take(s, n) == IF n = 0 \/ s = <<>> THEN <<>> ELSE <<Head(s)>> \o iter_take(Tail(s), n - 1)

\* params.limit.unwrap_or(25).
DefaultLimit == 25

paginate_from_start(sorted, skip, limit) == iter_take(sorted, limit)
\* files.iter().skip(skip).take(limit).cloned().collect().
paginate(sorted, skip, limit) == iter_take(iter_skip(sorted, skip), limit)

\* A FileQuery is [skip, limit, sort_by, order], all optional.
format_result(files, params) ==
    LET skip == IF params.skip = None THEN 0 ELSE params.skip[1]
        limit == IF params.limit = None THEN DefaultLimit ELSE params.limit[1]
        order == IF params.order = None THEN "asc" ELSE params.order[1]
    IN  IF params.sort_by # None /\ params.sort_by[1] \notin valid_fields
        THEN [status |-> "BadRequest",
              response |-> [error |-> "Invalid sort field: " \o params.sort_by[1]]]
        ELSE [status |-> "Ok",
              response |->
                  [files |-> paginate(sort_files(files, params.sort_by, order = "desc"),
                                      skip, limit),
                   total_files |-> Len(files), skip |-> skip, limit |-> limit]]

\* ------------------------------------------------- GET /api/v1/files
\* handlers/files.rs get_files.

\* A path string as a message repeats it.
RECURSIVE rel_str(_)
rel_str(segs) ==
    IF segs = <<>> THEN ""
    ELSE IF Len(segs) = 1 THEN segs[1]
    ELSE segs[1] \o "/" \o rel_str(Tail(segs))

path_display(s) == IF s.abs THEN "/" \o rel_str(s.segs) ELSE rel_str(s.segs)

\* FileInfo::from_path of the entry at q: fs::metadata follows a symlink and fails
\* on one that leads nowhere; the size is that of a file and 0 otherwise. The tree
\* keeps no times: every entry reports time 0.
file_info_from_path(f, q) ==
    IF ~exists(f, q) THEN None
    ELSE Some(FileInfo(Last(q), is_dir(f, q),
                       IF is_file(f, q) THEN Len(fs_read(f, q)[1]) ELSE 0,
                       Some(0), Some(0)))

\* The loop over the entries read_dir gives, in its order; None when the FileInfo
\* of an entry cannot be made.
RECURSIVE list_entries(_, _, _)
listed(info, rest) ==
    IF info = None \/ rest = None THEN None ELSE Some(<<info[1]>> \o rest[1])

list_entries(f, entries, skip_hidden) ==
    IF entries = <<>> THEN Some(<<>>)
    ELSE IF skip_hidden /\ starts_with_dot(Last(Head(entries)))
         THEN list_entries(f, Tail(entries), skip_hidden)
    ELSE listed(file_info_from_path(f, Head(entries)),
                list_entries(f, Tail(entries), skip_hidden))

\* result_handler::format_result(&mut files, &params) has answered r.
files_formatted(f, r, touched) ==
    [fs |-> f, status |-> r.status, response |-> r.response, touched |-> touched]

\* The entries are collected: files is None when one of them failed.
get_files_listed(f, files, params, touched) ==
    IF files = None THEN AppError(f, "InternalError", "Failed to read file info", {})
    ELSE files_formatted(f, format_result(files[1], params), touched)

\* get_files for a FileQuery [path, skip_hidden, skip, limit, sort_by, order], where
\* read_dir gives the entries of the directory in the order entries.
get_files(f, params, entries) ==
    LET path == IF params.path = None THEN EmptyStr ELSE params.path[1]
        full_path == join(Root, path)
    IN  IF ~exists(f, full_path)
        THEN AppError(f, "NotFound", "Path not found: " \o path_display(path), {})
        ELSE IF IsErr(canonicalize(f, Root))
             THEN AppError(f, "InternalError", "Invalid root directory configuration", {})
        ELSE IF ~starts_with(canonicalize(f, full_path), canonicalize(f, Root))
             THEN AppError(f, "BadRequest", "Invalid path: outside root directory", {})
        ELSE IF ~is_dir(f, full_path)
             THEN AppError(f, "BadRequest", "Path is not a directory", {})
        ELSE get_files_listed(f, list_entries(f, entries, params.skip_hidden), params,
                              {canonicalize(f, full_path)}
                                  \cup {entries[i] : i \in 1..Len(entries)})

\* ------------------------------------- GET /api/v1/videos and /api/v1/search
\* handlers/files.rs get_videos and search: WalkDir::new(&full_path), which does not
\* follow symlinks and gives a directory before what it holds.

\* The entries of a directory in one of the orders read_dir gives them in: by name
\* upwards, or downwards.
RECURSIVE in_order(_, _)
in_order(entries, downwards) ==
    IF entries = {} THEN <<>>
    ELSE LET first == CHOOSE x \in entries : \A y \in entries :
                          IF downwards
                          THEN bytes_cmp(NameBytes(Last(x)), NameBytes(Last(y))) >= 0
                          ELSE bytes_cmp(NameBytes(Last(x)), NameBytes(Last(y))) <= 0
         IN  <<first>> \o in_order(entries \ {first}, downwards)

\* The entries WalkDir yields for directory d, d itself first.
RECURSIVE walk_dir(_, _, _)
RECURSIVE walk_each(_, _, _)
walk_each(f, entries, downwards) ==
    IF entries = <<>> THEN <<>>
    ELSE (IF f[Head(entries)].kind = "dir" THEN walk_dir(f, Head(entries), downwards)
          ELSE <<Head(entries)>>) \o walk_each(f, Tail(entries), downwards)

walk_dir(f, d, downwards) ==
    <<d>> \o walk_each(f, in_order(Children(f, d), downwards), downwards)

\* str::to_lowercase and str::contains, on the bytes of a string.
lower_bytes(b) == [i \in 1..Len(b) |-> IF b[i] \in 65..90 THEN b[i] + 32 ELSE b[i]]

contains(hay, needle) ==
    \E i \in 0..(Len(hay) - Len(needle)) : SubSeq(hay, i + 1, i + Len(needle)) = needle

\* The entries of the walk that get_videos keeps: entry.metadata() is that of the
\* entry itself (a symlink is no directory).
video_entries(f, entries, skip_hidden) ==
    SelectSeq(entries, LAMBDA q :
        /\ f[q].kind # "dir"
        /\ ~(skip_hidden /\ starts_with_dot(Last(q)))
        /\ is_video(q))

\* The entries of the walk that search keeps for the lower-cased query.
matching_entries(f, entries, skip_hidden, query) ==
    SelectSeq(entries, LAMBDA q :
        /\ f[q].kind # "dir"
        /\ ~(skip_hidden /\ starts_with_dot(Last(q)))
        /\ contains(lower_bytes(NameBytes(Last(q))), query))

\* files.push(FileInfo::from_path(..).unwrap()) for every entry kept: the unwrap of
\* an Err panics, and the request ends without a response.
walk_listed(f, kept, params) ==
    IF \E i \in 1..Len(kept) : file_info_from_path(f, kept[i]) = None
    THEN [fs |-> f, status |-> "Panic", response |-> <<>>, touched |-> {}]
    ELSE files_formatted(f,
             format_result([i \in 1..Len(kept) |-> file_info_from_path(f, kept[i])[1]],
                           params),
             {kept[i] : i \in 1..Len(kept)})

\* get_videos and search from the canonicalized path on.
walk_checked(f, params, path, full_path, kept) ==
    IF IsErr(full_path)
    THEN AppError(f, "NotFound", "Path not found: " \o path_display(path), {})
    ELSE IF IsErr(canonicalize(f, Root))
         THEN AppError(f, "InternalError", "Invalid root directory configuration", {})
    ELSE IF ~starts_with(full_path, canonicalize(f, Root))
         THEN AppError(f, "BadRequest", "Invalid path: outside root directory", {})
    ELSE IF ~is_dir(f, full_path)
         THEN AppError(f, "BadRequest", "Path is not a directory", {})
    ELSE walk_listed(f, kept, params)

\* get_videos for a FileQuery, read_dir giving names upwards or downwards.
get_videos(f, params, downwards) ==
    LET path == IF params.path = None THEN EmptyStr ELSE params.path[1]
        full_path == canonicalize(f, join(Root, path))
    IN  walk_checked(f, params, path, full_path,
                     IF KindAt(f, full_path) = "dir"
                     THEN video_entries(f, walk_dir(f, full_path, downwards),
                                        params.skip_hidden)
                     ELSE <<>>)

\* search for a FileQuery with the field query.
search(f, params, downwards) ==
    LET path == IF params.path = None THEN EmptyStr ELSE params.path[1]
        query == lower_bytes(NameBytes(IF params.query = None THEN "" ELSE params.query[1]))
        full_path == canonicalize(f, join(Root, path))
    IN  IF query = <<>> THEN AppError(f, "BadRequest", "Missing search query", {})
        ELSE walk_checked(f, params, path, full_path,
                          IF KindAt(f, full_path) = "dir"
                          THEN matching_entries(f, walk_dir(f, full_path, downwards),
                                                params.skip_hidden, query)
                          ELSE <<>>)

\* ----------------------------------------------------- what is listed
\* Longest listing, in entries.
MaxFiles == 3

\* Two directories and three files; the names differ in case, the times in being
\* known.
Entries ==
    {FileInfo("a", TRUE, 0, Some(3), Some(1)),
     FileInfo("B", TRUE, 0, None, Some(4)),
     FileInfo("b.txt", FALSE, 2, Some(1), None),
     FileInfo("A.txt", FALSE, 5, Some(2), Some(2)),
     FileInfo("v.mp4", FALSE, 1, None, Some(3))}

\* The files b.txt, A.txt, c.txt, in this order.
ThreeFiles ==
    <<FileInfo("b.txt", FALSE, 2, Some(1), None),
      FileInfo("A.txt", FALSE, 5, Some(2), Some(2)),
      FileInfo("c.txt", FALSE, 3, Some(3), Some(1))>>

\* Ten entries: the files of ThreeFiles and the directories a and B by turns, of
\* sizes 10 down to 1.
TenEntries ==
    [i \in 1..10 |->
        FileInfo(<<"b.txt", "a", "A.txt", "B", "c.txt">>[((i - 1) % 5) + 1],
                 i % 2 = 0, 11 - i, Some(i), Some(11 - i))]

Listings == UNION {[1..k -> Entries] : k \in 0..MaxFiles} \cup {ThreeFiles, TenEntries}

FileQueries ==
    [skip : {None, Some(1), Some(7)},
     limit : {None, Some(1), Some(5)},
     sort_by : {None, Some("bogus"), Some("Name"), Some("")}
                  \cup {Some(x) : x \in valid_fields},
     order : {None, Some("asc"), Some("desc")}]

\* ================================================================== actions
\* A request that changes the tree is one of a bounded number.
Budget(op) == IF op \in {"uploadfile", "upload", "createfolder"} THEN MaxUploads ELSE MaxSteps

Answer(op, req, r) ==
    /\ r.fs # fs => steps < Budget(op)
    /\ fs' = r.fs
    /\ steps' = IF r.fs # fs THEN steps + 1 ELSE steps
    /\ resp' = [op |-> op, req |-> req, status |-> r.status, body |-> r.response,
                touched |-> r.touched]
    /\ UNCHANGED <<thumbs, served, ups>>

\* A handler's result r under an HTTP status.
WithStatus(r, status) ==
    [fs |-> r.fs, status |-> status, response |-> r.response, touched |-> r.touched]

\* handlers/syncfusion.rs file_operations: the transport result is always Ok.
file_operations(f, req) == WithStatus(process_file_manager_request(f, req), "Ok")

FileOperations(req) == Answer("fileoperations", req, file_operations(fs, req))

SfRead ==
    /\ resp = NoResp
    /\ \E p \in PathStrs \cup {Abs(<<"a">>)}, h \in BOOLEAN :
        FileOperations(Request(Some("read"), p, None, None, None, h))

SfCreate ==
    /\ resp = NoResp
    /\ \E p \in DirStrs, n \in {None, Some(EmptyStr)} \cup {Some(s) : s \in NameStrs} :
        FileOperations(Request(Some("create"), p, n, None, None, FALSE))

\* The names of a delete: none, one name, the empty name and ".", a name and then
\* one beside the root, and batches of entries of the directory with a missing one,
\* a symlink or the same name again among them.
DeleteNames ==
    {None, Some(<<>>), Some(<<EmptyStr>>), Some(<<Rel(<<".">>)>>)}
        \cup {Some(<<s>>) : s \in NameStrs}
        \cup {Some(<<Rel(<<c>>), Rel(<<"..", "v.mp4">>)>>) : c \in {"a", "v.mp4"}}
        \cup {Some(<<Rel(<<"a">>), Rel(<<"n">>), Rel(<<"v.mp4">>)>>),
              Some(<<Rel(<<"v.mp4">>), Rel(<<"a">>)>>),
              Some(<<Rel(<<"a">>), Rel(<<"lnk">>), Rel(<<"v.mp4">>)>>),
              Some(<<Rel(<<"v.mp4">>), Rel(<<"v.mp4">>), Rel(<<"a">>)>>),
              Some(<<Rel(<<"n">>), Rel(<<"a">>)>>)}

SfDelete ==
    /\ resp = NoResp
    /\ \E p \in DirStrs, n \in DeleteNames :
        FileOperations(Request(Some("delete"), p, None, None, n, FALSE))

SfRename ==
    /\ resp = NoResp
    /\ \E p \in DirStrs, n \in OldNameStrs, m \in NameStrs :
        FileOperations(Request(Some("rename"), p, Some(n), Some(m), None, FALSE))

SfOther ==
    /\ resp = NoResp
    /\ \E a \in {None, Some("search"), Some("copy"), Some("move"), Some("details"),
              Some("bogus")} :
        FileOperations(Request(a, EmptyStr, None, None, None, FALSE))

\* GET file/{path}, stream/{path}, thumbnail/{path}.
NativePaths == PathStrs \cup {Abs(<<"v.mp4">>)}

ServeFile ==
    /\ resp = NoResp
    /\ \E p \in NativePaths, inline \in {None, Some(TRUE)} :
        Answer("file", [path |-> p, inline |-> inline], serve_file(fs, p, inline))

StreamFile ==
    /\ resp = NoResp
    /\ \E p \in NativePaths : Answer("stream", [path |-> p], stream_file(fs, p))

GetThumbnail ==
    /\ resp = NoResp
    /\ \E p \in NativePaths, outcome \in {"written", "nothing", "failed"} :
        Answer("thumbnail", [path |-> p, ffmpeg |-> outcome], get_thumbnail(fs, p, outcome))

\* GET thumbnail/{path}, one await at a time: the video, the video through the
\* symlink, a directory, a missing file and a text file.
ThumbPaths ==
    {Rel(<<"v.mp4">>), Rel(<<"lnk", "v.mp4">>), Rel(<<"a">>), Rel(<<"n">>),
     Rel(<<"a", "t.txt">>)}

\* Request t has come in for file_path and has run to its first await with r.
ThumbStarted(t, file_path, r) ==
    /\ fs' = r.fs
    /\ thumbs' = [thumbs EXCEPT ![t] =
            [pc |-> IF r.result = "" THEN "lookup" ELSE "returned",
             path |-> file_path,
             late |-> {x[2] : x \in {y \in served : y[1] = file_path}},
             result |-> r.result,
             out |-> thumbnail_path_of(thumbnail_source(file_path)),
             hit |-> FALSE, status |-> "", body |-> <<>>]]
    /\ UNCHANGED <<resp, steps, served, ups>>

ThumbRequest ==
    \E t \in Tasks :
        /\ thumbs[t].pc \in {"idle", "done"}
        /\ \E file_path \in ThumbPaths :
              ThumbStarted(t, file_path, thumbnail_begin(fs, thumbnail_source(file_path)))

\* if thumbnail_path.exists() { return Ok(thumbnail_path) }, else ffmpeg is spawned.
ThumbLookup ==
    \E t \in Tasks :
        /\ thumbs[t].pc = "lookup"
        /\ thumbs' = [thumbs EXCEPT ![t] =
                IF thumbnail_cached(fs, thumbs[t].out)
                THEN [thumbs[t] EXCEPT !.pc = "returned", !.result = "Ok", !.hit = TRUE]
                ELSE [thumbs[t] EXCEPT !.pc = "ffmpeg"]]
        /\ UNCHANGED <<fs, resp, steps, served, ups>>

\* The child process of request t has ended with r.
FfmpegEnded(t, r) ==
    /\ fs' = r.fs
    /\ thumbs' = [thumbs EXCEPT ![t] = [thumbs[t] EXCEPT !.pc = "returned", !.result = r.result]]
    /\ UNCHANGED <<resp, steps, served, ups>>

\* The child process of request t has opened its output file, which answered c.
FfmpegOpened(t, c) ==
    /\ c.ok
    /\ fs' = c.fs
    /\ thumbs' = [thumbs EXCEPT ![t] = [thumbs[t] EXCEPT !.pc = "writing"]]
    /\ UNCHANGED <<resp, steps, served, ups>>

\* ffmpeg opens the output file it was given (with -y, whatever is there) before it
\* encodes the frame: the thumbnail is there, and empty.
FfmpegOpen ==
    \E t \in Tasks :
        /\ thumbs[t].pc = "ffmpeg"
        /\ FfmpegOpened(t, file_create(fs, thumbs[t].out))

\* Command::new("ffmpeg") ... .output().await returns.
FfmpegExit ==
    \E t \in Tasks, outcome \in {"written", "nothing", "failed"} :
        /\ thumbs[t].pc \in {"ffmpeg", "writing"}
        /\ FfmpegEnded(t, ffmpeg_wrote(fs, {},
                                       canonicalize(fs, thumbnail_source(thumbs[t].path)),
                                       thumbs[t].out, outcome,
                                       file_create(fs, thumbs[t].out)))

\* The handler of request t has answered r.
ThumbAnswered(t, r) ==
    /\ thumbs' = [thumbs EXCEPT ![t] =
            [thumbs[t] EXCEPT !.pc = "done", !.status = r.status,
                              !.body = IF r.status = "Ok" THEN r.response.body ELSE <<>>]]
    /\ served' = IF r.status = "Ok" THEN served \cup {<<thumbs[t].path, thumbs[t].out>>}
                 ELSE served
    /\ UNCHANGED <<fs, resp, steps, ups>>

\* The manager has returned: its error is mapped, or the thumbnail is opened and
\* answered.
ThumbServe ==
    \E t \in Tasks :
        /\ thumbs[t].pc = "returned"
        /\ ThumbAnswered(t, serve_thumbnail([fs |-> fs, result |-> thumbs[t].result,
                                             path |-> thumbs[t].out, touched |-> {}]))

\* An upload that replaces the video of the root.
ReplaceForms ==
    [location : {Rel(<<".">>)}, user : {"u"}, sha512 : {None},
     file_name : {Some(Rel(<<"v.mp4">>))}, contents : Contents]

ReplaceVideo ==
    /\ resp = NoResp
    /\ \E form \in ReplaceForms : Answer("uploadfile", form, upload_file(fs, form))

\* Requests of the widget that name the cache directory of the root: its deletion,
\* the deletion of the entry of the video in it, its renaming, and its creation.
CacheRequests ==
    {Request(Some("delete"), EmptyStr, None, None, Some(<<Rel(<<".cache">>)>>), TRUE),
     Request(Some("delete"), Rel(<<".cache">>), None, None,
             Some(<<Rel(<<get_md5_hash(to_str(<<"srv", "v.mp4">>))>>)>>), TRUE),
     Request(Some("rename"), EmptyStr, Some(Rel(<<".cache">>)), Some(Rel(<<"n">>)), None, TRUE),
     Request(Some("create"), EmptyStr, Some(Rel(<<".cache">>)), None, None, TRUE)}

SfCache ==
    /\ resp = NoResp
    /\ \E req \in CacheRequests : FileOperations(req)

\* Uploads of the video of the root, one system call at a time: with the digest of
\* the bytes that are there, or with none.
WriterForms ==
    [location : {Rel(<<".">>)}, user : {"u"}, sha512 : {None, Some(Sha512Hex(<<1, 2>>))},
     file_name : {Some(Rel(<<"v.mp4">>))}, contents : Contents]

\* Upload u has come in with form and has run its checks, which answered b.
UploadStarted(u, form, b) ==
    /\ ups' = [ups EXCEPT ![u] =
            [pc |-> IF b.go THEN "create" ELSE "done", form |-> form,
             path |-> upload_destination(fs, form), at |-> <<>>,
             status |-> IF b.go THEN "" ELSE b.status,
             skipped |-> b.skipped, sha512 |-> IF b.go THEN None ELSE b.sha512]]
    /\ UNCHANGED <<fs, resp, steps, thumbs, served>>

UploadBegin ==
    \E u \in Writers :
        /\ ups[u].pc = "idle"
        /\ \E form \in WriterForms :
              UploadStarted(u, form, upload_begin(fs, form, upload_file(fs, form)))

\* File::create(&file_path) of upload u has answered c.
UploadOpened(u, c) ==
    /\ fs' = c.fs
    /\ ups' = [ups EXCEPT ![u] =
            IF c.ok THEN [ups[u] EXCEPT !.pc = "write", !.at = c.at]
            ELSE [ups[u] EXCEPT !.pc = "done", !.status = "InternalError"]]
    /\ UNCHANGED <<resp, steps, thumbs, served>>

UploadCreate ==
    \E u \in Writers :
        /\ ups[u].pc = "create"
        /\ UploadOpened(u, file_create(fs, ups[u].path))

\* file.write_all(&form.file.contents).
UploadWrite ==
    \E u \in Writers :
        /\ ups[u].pc = "write"
        /\ fs' = write_all(fs, ups[u].at, ups[u].form.contents)
        /\ ups' = [ups EXCEPT ![u] = [ups[u] EXCEPT !.pc = "hash"]]
        /\ UNCHANGED <<resp, steps, thumbs, served>>

\* compute_file_sha512(&file_path) of upload u has answered new_file_hash.
UploadHashed(u, new_file_hash) ==
    /\ ups' = [ups EXCEPT ![u] =
            [ups[u] EXCEPT !.pc = "done",
                           !.status = IF new_file_hash = None THEN "InternalError" ELSE "Ok",
                           !.sha512 = new_file_hash]]
    /\ UNCHANGED <<fs, resp, steps, thumbs, served>>

UploadHash ==
    \E u \in Writers :
        /\ ups[u].pc = "hash"
        /\ UploadHashed(u, compute_file_sha512(fs, ups[u].path))

\* The file names of an upload: in the directory, beside it, absolute, through the
\* symlink, and that of a directory.
UploadNames ==
    {Rel(<<"v.mp4">>), Rel(<<"n">>), Rel(<<"a">>), Rel(<<"..", "n">>),
     Rel(<<"..", "v.mp4">>), Abs(<<"n">>), Rel(<<"lnk", "v.mp4">>)}

\* The sha512 fields of an upload: none, the digest of some content as the server
\* writes it or in upper case between white space, and one too short to log.
Hashes ==
    {None, Some(<<"a", "b", "c">>)}
        \cup {Some(Sha512Hex(c)) : c \in Contents}
        \cup {Some(Shouted(Sha512Hex(c))) : c \in Contents}

UploadForms ==
    [location : LocStrs, user : {"u"}, sha512 : Hashes,
     file_name : {None} \cup {Some(n) : n \in UploadNames}, contents : Contents]
        \cup [location : {EmptyStr, Rel(<<"a">>)}, user : {"", "u"}, sha512 : {None},
              file_name : {Some(Rel(<<"n">>))}, contents : Contents]

UploadFile ==
    /\ resp = NoResp
    /\ \E form \in UploadForms : Answer("uploadfile", form, upload_file(fs, form))

CreateFolder ==
    /\ resp = NoResp
    /\ \E path \in {None, Some(Abs(<<"n">>))} \cup {Some(d) : d \in DirStrs},
          foldername \in {None, Some(EmptyStr)} \cup {Some(n) : n \in NameStrs} :
        Answer("createfolder", [path |-> path, foldername |-> foldername],
               create_folder(fs, [path |-> path, foldername |-> foldername]))

SfUpload ==
    /\ resp = NoResp
    /\ \E path \in {None} \cup {Some(d) : d \in DirStrs},
          name \in {None} \cup {Some(n) : n \in UploadNames}, contents \in Contents :
        Answer("upload", [path |-> path, file_name |-> name, contents |-> contents],
               sf_upload(fs, path, name, contents))

\* GET /api/v1/files: the path (not trimmed: an absolute one replaces the root), and
\* how the listing is sorted.
ListPaths == {None, Some(Abs(<<"v.mp4">>)), Some(Abs(<<"n">>))} \cup {Some(p) : p \in PathStrs}

ListQueries ==
    [path : ListPaths, skip_hidden : BOOLEAN, skip : {None}, limit : {None},
     sort_by : {None, Some("size"), Some("bogus")}, order : {None}]

\* The orders read_dir may give the entries of the directory at p in.
ReadDir(f, p) ==
    IF ~is_dir(f, p) THEN {<<>>}
    ELSE {o \in [1..Cardinality(Children(f, canonicalize(f, p))) ->
                     Children(f, canonicalize(f, p))] :
             \A i \in DOMAIN o, j \in DOMAIN o : o[i] = o[j] => i = j}

GetFiles ==
    /\ resp = NoResp
    /\ \E params \in ListQueries :
          \E entries \in ReadDir(fs, join(Root, IF params.path = None THEN EmptyStr
                                                ELSE params.path[1])) :
              Answer("files", params, get_files(fs, params, entries))

\* GET /api/v1/videos and /api/v1/search: the directory, the query, and a sort
\* field.
WalkQueries ==
    [path : {None, Some(Rel(<<"a">>)), Some(Rel(<<"..">>)), Some(Rel(<<"n">>)),
             Some(Rel(<<"v.mp4">>)), Some(Rel(<<"lnk">>))},
     skip_hidden : BOOLEAN, query : {None, Some(""), Some("v"), Some("T"), Some("mp4")},
     skip : {None}, limit : {None}, sort_by : {None, Some("bogus")}, order : {None}]

GetVideos ==
    /\ resp = NoResp
    /\ \E params \in WalkQueries, downwards \in BOOLEAN :
          Answer("videos", params, get_videos(fs, params, downwards))

Search ==
    /\ resp = NoResp
    /\ \E params \in WalkQueries, downwards \in BOOLEAN :
          Answer("search", params, search(fs, params, downwards))

\* format_result on a listing some handler has gathered; the tree is not read.
Formatted(r) == [fs |-> fs, status |-> r.status, response |-> r.response, touched |-> {}]

FormatResult ==
    /\ resp = NoResp
    /\ \E files \in Listings, params \in FileQueries :
        Answer("format_result", [files |-> files, params |-> params],
               Formatted(format_result(files, params)))

\* The response goes out; the server is ready for the next request.
Respond ==
    /\ resp # NoResp
    /\ resp' = NoResp
    /\ UNCHANGED <<fs, steps, thumbs, served, ups>>

Init ==
    /\ fs = InitFS
    /\ resp = NoResp
    /\ steps = 0
    /\ thumbs = [t \in Tasks |-> IdleTask]
    /\ served = {}
    /\ ups = [u \in Writers |-> IdleUpload]

\* The widget dispatcher alone.
NextDispatch == SfRead \/ SfCreate \/ SfDelete \/ SfRename \/ SfOther \/ Respond
SpecDispatch == Init /\ [][NextDispatch]_vars

\* The native download, stream and thumbnail endpoints.
NextNative == ServeFile \/ StreamFile \/ GetThumbnail \/ Respond
SpecNative == Init /\ [][NextNative]_vars

\* The endpoints that create files and directories from a client's names.
NextUpload == UploadFile \/ SfUpload \/ CreateFolder \/ Respond
SpecUpload == Init /\ [][NextUpload]_vars

\* Thumbnail requests side by side, and uploads that replace the video.
NextThumb ==
    ThumbRequest \/ ThumbLookup \/ FfmpegOpen \/ FfmpegExit \/ ThumbServe \/ ReplaceVideo
        \/ Respond
SpecThumb == Init /\ [][NextThumb]_vars

\* The listings of one directory: GET files and the widget's read.
NextListing == GetFiles \/ SfRead \/ Respond
SpecListing == Init /\ [][NextListing]_vars

\* The listings of a tree that holds a hidden directory, or a symlink that leads
\* nowhere.
InitWalk ==
    /\ fs \in {HiddenFS, DanglingFS}
    /\ resp = NoResp
    /\ steps = 0
    /\ thumbs = [t \in Tasks |-> IdleTask]
    /\ served = {}
    /\ ups = [u \in Writers |-> IdleUpload]

NextWalk == GetFiles \/ GetVideos \/ Search \/ SfRead \/ Respond
SpecWalk == InitWalk /\ [][NextWalk]_vars

\* The endpoints with a required field.
NextFields == CreateFolder \/ UploadFile \/ Search \/ Respond
SpecFields == Init /\ [][NextFields]_vars

\* Thumbnail requests, and requests of the widget that name the cache directory.
NextCache == GetThumbnail \/ SfCache \/ Respond
SpecCache == Init /\ [][NextCache]_vars

\* Uploads side by side.
NextWriters == UploadBegin \/ UploadCreate \/ UploadWrite \/ UploadHash
SpecWriters == Init /\ [][NextWriters]_vars

\* The paginator.
NextFormat == FormatResult \/ Respond
SpecFormat == Init /\ [][NextFormat]_vars

\* ==================================================================== claims
\* The paths a dispatcher request names for its action.
Targets(req) ==
    LET base == join(Root, relative_path(req))
    IN  CASE req.action = Some("read") -> {base}
          [] req.action = Some("create") /\ req.name # None -> {join(base, req.name[1])}
          [] req.action = Some("delete") /\ req.names # None ->
                {join(base, req.names[1][i]) : i \in 1..Len(req.names[1])}
          [] req.action = Some("rename") /\ req.name # None /\ req.new_name # None ->
                {join(base, req.name[1]), join(base, req.new_name[1])}
          [] OTHER -> {}

\* Where the kernel takes path p in tree f: to the entry it names, or to the place
\* of the entry it would make.
Resolve(f, p) == IF exists(f, p) THEN canonicalize(f, p) ELSE Entry(p, ParentDir(f, p))

ResolvesOutside(f, p) == ~IsErr(Resolve(f, p)) /\ ~Inside(Resolve(f, p))

\* Tree g is tree f in all that lies outside the root.
SameOutside(f, g) ==
    \A q \in (DOMAIN f) \cup (DOMAIN g) :
        ~Inside(q) => q \in DOMAIN f /\ q \in DOMAIN g /\ f[q] = g[q]

\* C1: every read, create, delete or rename of the widget dispatcher whose target
\* resolves outside the root, existing or not, is answered with an error response,
\* and the dispatcher lists, creates, deletes and renames entries in the root only:
\* what lies outside the root is as it was before the request.
C1_DispatcherContained ==
    [][resp'.op = "fileoperations" =>
          /\ \A q \in resp'.touched : Inside(q)
          /\ SameOutside(fs, fs')
          /\ (\E t \in Targets(resp'.req) : ResolvesOutside(fs, t))
                => resp'.body.error # None]_vars

\* A delete of the file beside the root, which is there, has been refused.
C1_Witness ==
    /\ resp.op = "fileoperations"
    /\ resp.req.action = Some("delete")
    /\ resp.req.path = EmptyStr
    /\ resp.req.names = Some(<<Rel(<<"..", "v.mp4">>)>>)
    /\ resp.body.error # None
    /\ <<"v.mp4">> \in DOMAIN fs

\* C2: the download, stream and thumbnail endpoints reject every path that leads
\* outside the root, and open, serve or hand to the thumbnail generator no file
\* outside the root.
C2_NativeContained ==
    resp.op \in {"file", "stream", "thumbnail"} =>
        /\ \A q \in resp.touched : Inside(q)
        /\ ResolvesOutside(fs, join(Root, trim_start_slash(resp.req.path)))
              => resp.status # "Ok"

\* C3: when upload_file answers that the location is outside the root directory,
\* the file tree is as it was before the request.
C3_OutsideUploadWritesNothing ==
    [][(/\ resp'.op = "uploadfile"
        /\ resp'.status = "BadRequest"
        /\ resp'.body.error = "Invalid upload path: outside root directory")
          => fs' = fs]_vars

\* C4: the native upload, the widget upload and createfolder make no file and no
\* directory outside the root, whatever file name or folder name the client gives.
C4_NothingCreatedOutside ==
    \A q \in DOMAIN fs : Inside(q) \/ q \in DOMAIN InitFS

\* The directory an upload names, the name of its file, and the file it is to
\* write in tree f.
UploadDir(form) == join(Root, form.location)
UploadName(form) == IF form.file_name = None THEN Rel(<<"unnamed">>) ELSE form.file_name[1]
Destination(f, form) == join(canonicalize(f, UploadDir(form)), UploadName(form))

\* An upload with its fields filled in, into a directory that is there, in the root.
ValidUpload(f, form) ==
    /\ form.location # EmptyStr
    /\ form.user # ""
    /\ is_dir(f, UploadDir(form))
    /\ Inside(canonicalize(f, UploadDir(form)))

\* C5: an upload onto an existing file with a sha512 that is, trimmed and in lower
\* case, the digest of that file (sent as the server writes it, or in upper case
\* between white space) writes nothing: the tree is unchanged, and the answer is
\* skipped = true with the digest of the existing file.
C5_UploadIdempotence ==
    [][(/\ resp'.op = "uploadfile"
        /\ resp'.req.sha512 # None
        /\ ValidUpload(fs, resp'.req)
        /\ is_file(fs, Destination(fs, resp'.req))
        /\ resp'.req.sha512[1]
              \in {Sha512Hex(fs_read(fs, Destination(fs, resp'.req))[1]),
                   Shouted(Sha512Hex(fs_read(fs, Destination(fs, resp'.req))[1]))})
          => /\ fs' = fs
             /\ resp'.status = "Ok"
             /\ resp'.body.skipped
             /\ resp'.body.sha512
                   = Some(Sha512Hex(fs_read(fs, Destination(fs, resp'.req))[1]))]_vars

\* The video in the root has been uploaded again, its digest sent in upper case
\* between white space, and the upload was skipped.
C5_Witness ==
    /\ resp.op = "uploadfile"
    /\ resp.status = "Ok"
    /\ resp.body.skipped
    /\ resp.req.location = Rel(<<".">>)
    /\ resp.req.file_name = Some(Rel(<<"v.mp4">>))
    /\ resp.req.sha512 = Some(Shouted(Sha512Hex(resp.req.contents)))
    /\ fs_read(fs, <<"srv", "v.mp4">>) = Some(resp.req.contents)

\* C6: an upload of bytes that differ from the content of the existing destination
\* file, with no sha512, a wrong one or the digest of the existing file, leaves the
\* file with the new bytes and answers skipped = false with the digest of the new
\* content.
C6_MismatchOverwrites ==
    [][(/\ resp'.op = "uploadfile"
        /\ ValidUpload(fs, resp'.req)
        /\ is_file(fs, Destination(fs, resp'.req))
        /\ fs_read(fs, Destination(fs, resp'.req)) # Some(resp'.req.contents)
        /\ \/ resp'.req.sha512 = None
           \/ Len(trim(resp'.req.sha512[1])) = Sha512HexLen)
          => /\ resp'.status = "Ok"
             /\ ~resp'.body.skipped
             /\ resp'.body.sha512 = Some(Sha512Hex(resp'.req.contents))
             /\ fs_read(fs', Destination(fs, resp'.req)) = Some(resp'.req.contents)]_vars

\* C7: after an upload that was answered and not skipped, the destination file
\* holds the uploaded bytes and nothing else, and the sha512 of the answer is the
\* digest of the file as it is on disk.
C7_UploadReplaces ==
    [][(/\ resp'.op = "uploadfile"
        /\ resp'.status = "Ok"
        /\ ~resp'.body.skipped)
          => /\ fs_read(fs', Destination(fs', resp'.req)) = Some(resp'.req.contents)
             /\ resp'.body.sha512
                   = Some(Sha512Hex(fs_read(fs', Destination(fs', resp'.req))[1]))]_vars

\* One byte has been uploaded onto the video in the root, which held two.
C7_Witness ==
    /\ resp.op = "uploadfile"
    /\ resp.status = "Ok"
    /\ ~resp.body.skipped
    /\ resp.req.location = Rel(<<".">>)
    /\ resp.req.file_name = Some(Rel(<<"v.mp4">>))
    /\ resp.req.contents = <<3>>
    /\ Len(InitFS[<<"srv", "v.mp4">>].data) > Len(resp.req.contents)
    /\ fs[<<"srv", "v.mp4">>].data = <<3>>

\* C8: in the files format_result returns, the whole listing or a page of it, no
\* entry that is not a directory stands before a directory, whatever the sort
\* field and the order.
C8_DirectoriesFirst ==
    (resp.op = "format_result" /\ resp.status = "Ok") =>
        \A i, j \in 1..Len(resp.body.files) :
            i < j => ~(~resp.body.files[i].is_directory /\ resp.body.files[j].is_directory)

\* A listing that began with a file was sorted by size, largest first, and came
\* back with a directory first and a file last.
C8_Witness ==
    /\ resp.op = "format_result"
    /\ resp.status = "Ok"
    /\ resp.req.params.sort_by = Some("size")
    /\ resp.req.params.order = Some("desc")
    /\ Len(resp.req.files) >= 2
    /\ ~resp.req.files[1].is_directory
    /\ Len(resp.body.files) >= 2
    /\ resp.body.files[1].is_directory
    /\ ~resp.body.files[Len(resp.body.files)].is_directory

\* C9: total_files is the number of entries before pagination, and files are the
\* entries of the sorted sequence at the positions skip .. min(skip + limit, total)
\* - 1 (counted from 0) in order; none, and no error, when skip is at or beyond the
\* total.
C9_Pagination ==
    (resp.op = "format_result" /\ resp.status = "Ok") =>
        LET params == resp.req.params
            total == Len(resp.req.files)
            skip == IF params.skip = None THEN 0 ELSE params.skip[1]
            limit == IF params.limit = None THEN 25 ELSE params.limit[1]
            last == IF skip + limit < total THEN skip + limit ELSE total
            sorted == sort_files(resp.req.files, params.sort_by, params.order = Some("desc"))
        IN  /\ resp.body.total_files = total
            /\ Len(resp.body.files) = IF skip >= total THEN 0 ELSE last - skip
            /\ \A i \in 1..Len(resp.body.files) : resp.body.files[i] = sorted[skip + i]

\* Of ten entries, skip = 7 and limit = 5 gave three, and total_files = 10.
C9_Witness ==
    /\ resp.op = "format_result"
    /\ resp.status = "Ok"
    /\ Len(resp.req.files) = 10
    /\ resp.req.params.skip = Some(7)
    /\ resp.req.params.limit = Some(5)
    /\ Len(resp.body.files) = 3
    /\ resp.body.total_files = 10

\* Name a is not behind name b in the order of their bytes.
BytewiseLeq(a, b) ==
    LET x == NameBytes(a)
        y == NameBytes(b)
    IN  \/ Len(x) <= Len(y) /\ SubSeq(y, 1, Len(x)) = x
        \/ \E k \in 1..Len(x) :
              /\ k <= Len(y)
              /\ SubSeq(x, 1, k - 1) = SubSeq(y, 1, k - 1)
              /\ x[k] < y[k]

Names(files) == [i \in 1..Len(files) |-> files[i].name]

\* C10: sorted by name, neighbours that are both directories or both files stand
\* in the order of the bytes of their names, and in the reverse of it when the
\* order is desc; b.txt, A.txt, c.txt by name descending are c.txt, b.txt, A.txt;
\* without a sort field the directories come first and the names ascend.
C10_NameOrder ==
    (resp.op = "format_result" /\ resp.status = "Ok") =>
        LET params == resp.req.params
            out == resp.body.files
        IN  /\ params.sort_by \in {None, Some("name")} =>
                \A i \in 1..(Len(out) - 1) :
                    /\ out[i].is_directory = out[i + 1].is_directory =>
                          IF params.sort_by = Some("name") /\ params.order = Some("desc")
                          THEN BytewiseLeq(out[i + 1].name, out[i].name)
                          ELSE BytewiseLeq(out[i].name, out[i + 1].name)
                    /\ params.sort_by = None => (out[i + 1].is_directory => out[i].is_directory)
            /\ (/\ Names(resp.req.files) = <<"b.txt", "A.txt", "c.txt">>
                /\ params.sort_by = Some("name")
                /\ params.order = Some("desc")
                /\ params.skip = None
                /\ params.limit = None)
                  => Names(out) = <<"c.txt", "b.txt", "A.txt">>

\* b.txt, A.txt, c.txt have been sorted by name, descending.
C10_Witness ==
    /\ resp.op = "format_result"
    /\ resp.status = "Ok"
    /\ Names(resp.req.files) = <<"b.txt", "A.txt", "c.txt">>
    /\ resp.req.params.sort_by = Some("name")
    /\ resp.req.params.order = Some("desc")
    /\ Names(resp.body.files) = <<"c.txt", "b.txt", "A.txt">>

\* C11: a format_result with sort_by set to anything but name, size, modified_time,
\* created_time or file_type is answered BadRequest, naming the field, and with no
\* listing, whatever the entries (none included), skip, limit and order.
C11_UnknownSortField ==
    (/\ resp.op = "format_result"
     /\ resp.req.params.sort_by # None
     /\ resp.req.params.sort_by[1]
           \notin {"name", "size", "modified_time", "created_time", "file_type"})
        => /\ resp.status = "BadRequest"
           /\ DOMAIN resp.body = {"error"}
           /\ resp.body.error = "Invalid sort field: " \o resp.req.params.sort_by[1]

\* An empty listing sorted by "Name", descending, from entry 7 on, has been refused.
C11_Witness ==
    /\ resp.op = "format_result"
    /\ resp.req.files = <<>>
    /\ resp.req.params = [skip |-> Some(7), limit |-> Some(5), sort_by |-> Some("Name"),
                          order |-> Some("desc")]
    /\ resp.status = "BadRequest"

\* C12: of the thumbnail requests in flight, no two run the external extraction
\* process for the same cache key (and so write the same thumbnail file) at the
\* same time.
C12_OneGenerationPerKey ==
    \A t \in Tasks, u \in Tasks :
        (/\ t # u
         /\ thumbs[t].pc \in {"ffmpeg", "writing"}
         /\ thumbs[u].pc \in {"ffmpeg", "writing"})
            => thumbs[t].out # thumbs[u].out

\* C13: a thumbnail request that comes in for a path the server has answered a
\* thumbnail for before never runs the external tool; the manager answers it from
\* the cache with the path answered before and the handler with the file that is
\* there, also when an upload has replaced the source in between.
C13_CachedThumbnailServed ==
    [][\A t \in Tasks :
          thumbs'[t].late # {} =>
              /\ thumbs'[t].pc \notin {"ffmpeg", "writing"}
              /\ thumbs'[t].pc \in {"returned", "done"} =>
                    /\ thumbs'[t].result = "Ok"
                    /\ thumbs'[t].hit
                    /\ thumbs'[t].late = {thumbs'[t].out}
              /\ (thumbs[t].pc = "returned" /\ thumbs'[t].pc = "done") =>
                    /\ thumbs'[t].status = "Ok"
                    /\ Some(thumbs'[t].body) = fs_read(fs, thumbs[t].out)]_vars

\* The video of the root has been replaced by other bytes after its thumbnail was
\* answered, and a later request has been answered the frame of the old bytes.
C13_Witness ==
    \E t \in Tasks :
        /\ thumbs[t].pc = "done"
        /\ thumbs[t].path = Rel(<<"v.mp4">>)
        /\ thumbs[t].late # {}
        /\ thumbs[t].status = "Ok"
        /\ fs_read(fs, <<"srv", "v.mp4">>) = Some(<<3>>)
        /\ thumbs[t].body = Frame(<<1, 2>>)
        /\ thumbs[t].body # Frame(<<3>>)

\* C14: when the manager's get_thumbnail returns a thumbnail path on a cache miss,
\* a file that is not empty is at that path.
C14_ReturnedThumbnailExists ==
    \A t \in Tasks :
        (thumbs[t].pc = "returned" /\ thumbs[t].result = "Ok" /\ ~thumbs[t].hit)
            => /\ is_file(fs, thumbs[t].out)
               /\ fs_read(fs, thumbs[t].out) # Some(<<>>)

\* C15: a thumbnail request for a source that is missing, is a directory or has a
\* MIME type (by its extension) that is no video type gets InvalidInput from the
\* manager at once: the tree is as before (no cache directory is made) and the
\* request never comes to look up the cache or to run the external tool.
C15_InvalidInput ==
    [][\A t \in Tasks :
          (/\ thumbs[t].pc \in {"idle", "done"}
           /\ thumbs'[t].pc \notin {"idle", "done"}
           /\ \/ ~exists(fs, thumbnail_source(thumbs'[t].path))
              \/ is_dir(fs, thumbnail_source(thumbs'[t].path))
              \/ mime_type(thumbnail_source(thumbs'[t].path)) # "video/mp4")
            => /\ thumbs'[t].pc = "returned"
               /\ thumbs'[t].result = "InvalidInput"
               /\ fs' = fs]_vars

\* The text file of directory a has been refused and no cache directory is there.
C15_Witness ==
    \E t \in Tasks :
        /\ thumbs[t].path = Rel(<<"a", "t.txt">>)
        /\ thumbs[t].pc = "done"
        /\ thumbs[t].result = "InvalidInput"
        /\ thumbs[t].status = "BadRequest"
        /\ is_file(fs, <<"srv", "a", "t.txt">>)
        /\ ~exists(fs, CacheDir)

\* The path a create, and the paths a rename, of the dispatcher name.
NamedPath(req, name) == join(join(Root, relative_path(req)), name)

\* Path p leads to an entry in the root, or to the place of a new one in a
\* directory in the root.
Contained(f, p) == ~IsErr(Resolve(f, p)) /\ Inside(Resolve(f, p))

\* C16: a create of the dispatcher for a name that leads to an entry which is there,
\* in the root, is answered with transport success and a response whose error has
\* file_exists holding that name alone and whose files are absent; the tree is as
\* before.
C16_CreateExisting ==
    [][(/\ resp'.op = "fileoperations"
        /\ resp'.req.action = Some("create")
        /\ resp'.req.name \notin {None, Some(EmptyStr)}
        /\ exists(fs, NamedPath(resp'.req, resp'.req.name[1]))
        /\ Contained(fs, NamedPath(resp'.req, resp'.req.name[1])))
          => /\ resp'.status = "Ok"
             /\ resp'.body.files = None
             /\ resp'.body.error # None
             /\ resp'.body.error[1].file_exists = Some(<<resp'.req.name[1]>>)
             /\ fs' = fs]_vars

\* A create of a in the root, where the directory a is, has been refused with a.
C16_Witness ==
    /\ resp.op = "fileoperations"
    /\ resp.req.action = Some("create")
    /\ resp.req.path = EmptyStr
    /\ resp.req.name = Some(Rel(<<"a">>))
    /\ resp.status = "Ok"
    /\ resp.body.error # None
    /\ resp.body.error[1].file_exists = Some(<<Rel(<<"a">>)>>)
    /\ is_dir(fs, <<"srv", "a">>)

\* A name of one component that is neither "." nor "..".
PlainName(s) == ~s.abs /\ Len(s.segs) = 1 /\ s.segs[1] \notin {".", ".."}

\* The directory a delete names and the entry its i-th name stands for.
DelDir(f, req) == canonicalize(f, join(Root, relative_path(req)))
DelEntry(f, req, i) == Append(DelDir(f, req), req.names[1][i].segs[1])

\* The i-th name of a delete is missing or fails in tree f when the names before it
\* are gone: the directory is not one of the root, no such entry is there (or an
\* earlier name has removed it), or it is a symlink that does not lead into the
\* root.
DelStops(f, req, i) ==
    \/ KindAt(f, DelDir(f, req)) # "dir"
    \/ ~Inside(DelDir(f, req))
    \/ DelEntry(f, req, i) \notin DOMAIN f
    \/ \E j \in 1..(i - 1) : req.names[1][j] = req.names[1][i]
    \/ /\ f[DelEntry(f, req, i)].kind = "link"
       /\ ~Inside(canonicalize(f, DelEntry(f, req, i)))

\* The first name at which a delete stops, one past the last name when at none.
DelFirstStop(f, req) ==
    IF \E i \in 1..Len(req.names[1]) : DelStops(f, req, i)
    THEN CHOOSE i \in 1..Len(req.names[1]) :
            /\ DelStops(f, req, i)
            /\ \A j \in 1..(i - 1) : ~DelStops(f, req, j)
    ELSE Len(req.names[1]) + 1

\* What the names before the k-th stand for, with all that lies below them.
DelRemoved(f, req, k) ==
    UNION {{DelEntry(f, req, j)} \cup Below(f, DelEntry(f, req, j)) : j \in 1..(k - 1)}

RenameFrom(f, req) == Resolve(f, NamedPath(req, req.name[1]))
RenameTo(f, req) == Resolve(f, NamedPath(req, req.new_name[1]))

\* A rename with both names given, both leading into the root.
ContainedRename(f, req) ==
    /\ req.action = Some("rename")
    /\ req.name \notin {None, Some(EmptyStr)}
    /\ req.new_name \notin {None, Some(EmptyStr)}
    /\ Contained(f, NamedPath(req, req.name[1]))
    /\ Contained(f, NamedPath(req, req.new_name[1]))

\* The response is the conflict error that names new_name, and nothing has changed.
RenameRefused(f, g, req, body) ==
    /\ body.error # None
    /\ body.error[1].file_exists = Some(<<req.new_name[1]>>)
    /\ g = f

\* The entry is under new_name and no longer under name, with all below it, and
\* its content and all else are as before.
RenameDone(f, g, req, body) ==
    /\ body.error = None
    /\ RenameTo(f, req) \in DOMAIN g
    /\ RenameFrom(f, req) \notin DOMAIN g
    /\ g = move_tree(f, RenameFrom(f, req), RenameTo(f, req),
                     {RenameFrom(f, req)} \cup Below(f, RenameFrom(f, req)),
                     Without(f, {RenameFrom(f, req)} \cup Below(f, RenameFrom(f, req))))
    /\ g[RenameTo(f, req)] = f[RenameFrom(f, req)]

C19_FilesOrError ==
    resp.op = "fileoperations" =>
        /\ resp.status = "Ok"
        /\ (resp.body.files # None) # (resp.body.error # None)

\* A request without an action has been answered, with transport success, an
\* error and no files.
C19_Witness ==
    /\ resp.op = "fileoperations"
    /\ resp.req.action = None
    /\ resp.status = "Ok"
    /\ resp.body.error # None
    /\ resp.body.files = None

\* C20: a listing request whose path leads out of the root is answered as one whose
\* path is not found in the root: GET files with NotFound "Path not found: <path>",
\* the read of the dispatcher with the error 404 "Path not found".
C20_EscapeAnsweredAsNotFound ==
    /\ (/\ resp.op = "files"
        /\ ResolvesOutside(fs, join(Root, IF resp.req.path = None THEN EmptyStr
                                          ELSE resp.req.path[1])))
          => /\ resp.status = "NotFound"
             /\ resp.body.error = "Path not found: " \o path_display(resp.req.path[1])
    /\ (/\ resp.op = "fileoperations"
        /\ resp.req.action = Some("read")
        /\ ResolvesOutside(fs, join(Root, relative_path(resp.req))))
          => /\ resp.body.error # None
             /\ resp.body.error[1].code = "404"
             /\ resp.body.error[1].message = "Path not found"

\* The components of the entry q below the directory a listing request names.
BelowListed(f, req, q) ==
    SubSeq(q, Len(canonicalize(f, join(Root, IF req.path = None THEN EmptyStr
                                             ELSE req.path[1]))) + 1, Len(q))

\* C30: with skip_hidden, a listing of videos or a search that succeeds returns no
\* file whose own name, or the name of a directory between the listed directory and
\* the file, begins with '.'.
C30_NothingBelowHidden ==
    (/\ resp.op \in {"videos", "search"}
     /\ resp.status = "Ok"
     /\ resp.req.skip_hidden)
        => \A q \in resp.touched :
              \A i \in DOMAIN BelowListed(fs, resp.req, q) :
                  ~starts_with_dot(BelowListed(fs, resp.req, q)[i])

\* Whether one of the entries is a symlink that leads nowhere: fs::metadata of it
\* fails.
Unreadable(f, entries) == \E q \in entries : f[q].kind = "link" /\ ~exists(f, q)

\* The directory a native listing request names.
ListedDir(f, req) ==
    canonicalize(f, join(Root, IF req.path = None THEN EmptyStr ELSE req.path[1]))

\* C24: a listing that meets an entry whose metadata cannot be read (a symlink that
\* leads nowhere) is answered with an error and no list: GET files and the read of
\* the dispatcher for an entry of the directory, videos and search for an entry
\* anywhere below it.
C24_ListingFailsFast ==
    /\ (resp.op = "files" /\ Unreadable(fs, Children(fs, ListedDir(fs, resp.req))))
          => resp.status \in {"InternalError", "BadRequest", "NotFound"}
    /\ (/\ resp.op \in {"videos", "search"}
        /\ ~IsErr(ListedDir(fs, resp.req))
        /\ Unreadable(fs, Below(fs, ListedDir(fs, resp.req))))
          => resp.status \in {"InternalError", "BadRequest", "NotFound"}
    /\ (/\ resp.op = "fileoperations"
        /\ resp.req.action = Some("read")
        /\ Unreadable(fs, Children(fs, canonicalize(fs, join(Root, relative_path(resp.req))))))
          => resp.body.error # None

\* C23: every FileInfo a listing returns for a directory has the file_type "" and
\* the size 0, whatever the name of the directory.
C23_DirectoryEntryBlank ==
    (resp.op \in {"files", "videos", "search"} /\ resp.status = "Ok")
        => \A i \in DOMAIN resp.body.files :
              resp.body.files[i].is_directory
                  => /\ resp.body.files[i].file_type = ""
                     /\ resp.body.files[i].size = 0

\* C21: createfolder without a foldername or with an empty one, uploadfile with an
\* empty location or user, and search without a query or with an empty one are
\* answered BadRequest, and the tree is as it was.
C21_EmptyFieldRejected ==
    [][resp = NoResp =>
        /\ (resp'.op = "createfolder" /\ resp'.req.foldername \in {None, Some(EmptyStr)})
              => (resp'.status = "BadRequest" /\ fs' = fs)
        /\ (resp'.op = "uploadfile"
                /\ (resp'.req.location = EmptyStr \/ resp'.req.user = ""))
              => (resp'.status = "BadRequest" /\ fs' = fs)
        /\ (resp'.op = "search" /\ resp'.req.query \in {None, Some("")})
              => (resp'.status = "BadRequest" /\ fs' = fs)]_vars

\* C28: every uploadfile request is answered, with an upload response or an
\* AppError, whatever its sha512 field holds; a hash that is not Sha512HexLen
\* characters long matches no file, so a successful upload with it is not skipped.
C28_UploadAlwaysAnswers ==
    resp.op = "uploadfile" =>
        /\ resp.status \in {"Ok", "BadRequest", "NotFound", "InternalError"}
        /\ (/\ resp.status = "Ok"
            /\ resp.req.sha512 # None
            /\ Len(trim(resp.req.sha512[1])) # Sha512HexLen)
              => ~resp.body.skipped

\* The response is the error code with the message.
Refused(body, code, message) ==
    /\ body.error # None
    /\ body.error[1].code = code
    /\ body.error[1].message = message

\* C22: the read of the dispatcher resolves its path in one of three ways. A path
\* that exists is refused as invalid exactly when its own canonical form is
\* outside the root; a path that does not exist, in a parent that does, is refused
\* as invalid exactly when the canonical form of the parent is outside the root,
\* and is not found otherwise; a path whose parent does not exist either is
\* answered not found (404), not invalid.
C22_ThreeOutcomes ==
    (resp.op = "fileoperations" /\ resp.req.action = Some("read")) =>
        LET path == join(Root, relative_path(resp.req))
        IN  IF exists(fs, path)
            THEN Refused(resp.body, "400", "Invalid path")
                    <=> ~Inside(canonicalize(fs, path))
            ELSE IF exists(fs, parent(path)[1])
                 THEN IF Inside(canonicalize(fs, parent(path)[1]))
                      THEN Refused(resp.body, "404", "Path not found")
                      ELSE Refused(resp.body, "400", "Invalid path")
            ELSE resp.body.error # None /\ resp.body.error[1].code = "404"

\* The thumbnails the cache of tree f holds: <root>/.cache/<digest>/thumbnail.jpg.
CacheEntries(f) ==
    {q \in DOMAIN f : /\ Len(q) = Len(CacheDir) + 2
                      /\ SubSeq(q, 1, Len(CacheDir)) = CacheDir
                      /\ Last(q) = "thumbnail.jpg"
                      /\ f[q].kind = "file"}

\* C25: a thumbnail the cache holds is a file at the same place after every step of
\* the system, whichever request the step belongs to.
C25_CacheEntryKept ==
    [][\A q \in CacheEntries(fs) : q \in CacheEntries(fs')]_vars

\* C29: after a delete of the dispatcher, whatever its names (the empty name and "."
\* among them), the directory its path names is still there, and so is the root.
C29_DeleteKeepsDirectory ==
    [][(/\ resp = NoResp
        /\ resp'.op = "fileoperations"
        /\ resp'.req.action = Some("delete")
        /\ is_dir(fs, join(Root, relative_path(resp'.req)))
        /\ Inside(canonicalize(fs, join(Root, relative_path(resp'.req)))))
          => /\ KindAt(fs', canonicalize(fs, join(Root, relative_path(resp'.req)))) = "dir"
             /\ KindAt(fs', Root) = "dir"]_vars

\* C27: when the manager answers a request from the cache, no other request for
\* the same thumbnail has a child process that has opened the file and not yet
\* written it: the file at the path answered is completely written.
C27_HitIsComplete ==
    [][\A t \in Tasks :
          (thumbs[t].pc = "lookup" /\ thumbs'[t].pc = "returned" /\ thumbs'[t].hit)
              => ~\E u \in Tasks : /\ u # t
                                   /\ thumbs[u].pc = "writing"
                                   /\ thumbs[u].out = thumbs[t].out]_vars

\* C26: when two uploads to the same path have run side by side and both have
\* written, the file holds exactly the bytes of one of the two, and the digest each
\* has answered is that of the bytes of one of the two.
C26_LastWriteWins ==
    \A u \in Writers, w \in Writers :
        (/\ u # w
         /\ ups[u].pc = "done" /\ ups[w].pc = "done"
         /\ ups[u].status = "Ok" /\ ups[w].status = "Ok"
         /\ ~ups[u].skipped /\ ~ups[w].skipped
         /\ ups[u].path = ups[w].path)
            => /\ fs_read(fs, ups[u].path)
                    \in {Some(ups[u].form.contents), Some(ups[w].form.contents)}
               /\ ups[u].sha512 \in {Some(Sha512Hex(ups[u].form.contents)),
                                      Some(Sha512Hex(ups[w].form.contents))}

====
